---- MODULE Spec2Model ----
(***************************************************************************)
(* CPSO-Protocol multi-agent pipeline: the shared request state            *)
(* (state/schema.py GlobalState), the LangGraph workflow of graph.py with  *)
(* its nodes (nodes/*.py), the artifact store (utils/artifact.py over      *)
(* tools/vector_db.py) and the StateManager (state_manager.py).            *)
(*                                                                         *)
(* Texts are abstracted to the features the code inspects: an audit text   *)
(* is the set of marker phrases it contains plus the outcome of parsing it *)
(* as JSON; an artifact content is a sequence of pages, each page one      *)
(* chunk of the text splitter.                                             *)
(***************************************************************************)
EXTENDS Integers, Sequences, FiniteSets, TLC

VARIABLES
    state,        \* the GlobalState object of the request
    collection,   \* the ChromaDB collection "artifacts": a set of stored chunks
    next_uuid,    \* number of uuid4() values drawn so far by create_artifact
    created,      \* history: the content each successful create_artifact was given
    pc,           \* node of the graph about to run, "END", "raised" or "idle"
    scout,        \* local variables of a running scout_node
    pre,          \* the request state when the last stage or operation started
    last,         \* what the last stage or operation did
    run           \* facts recorded about the current run of the graph

vars == <<state, collection, next_uuid, created, pc, scout, pre, last, run>>

----------------------------------------------------------------------------
(* Bounds of the model *)

MaxInstr == 2        \* scout instructions in the state handed to the graph
MaxStartIter == 4    \* iteration_count of the state handed to the graph
MaxPages == 2        \* pages of a content stored directly in the artifact store
MaxArtifacts == 3    \* create_artifact calls in the artifact-store specification
MaxOps == 3          \* StateManager operations on one request
MaxTasks == 3        \* tasks handed to asyncio.gather by one call of scout_node
MaxCalls == 2        \* tool calls served by one server process
MaxChars == 5        \* characters of a content handed to generate_summary
MaxLength == 6       \* max_length handed to generate_summary
MaxFindings == 2     \* findings of a report handed to generate_audit_visualization
MaxBudget == 6       \* budget_claude of a TokenBudgetTracker
MaxTokens == 3       \* tokens of one add_tokens call

(* Program constants *)

MAX_ITERATIONS == 3

----------------------------------------------------------------------------
(* state/schema.py *)

GlobalStateStatus ==
    {"scouting", "drafting", "auditing", "awaiting_user", "refining", "completed"}

Roles == <<"market", "tech", "competitor">>

ScoutInstruction(i, st) ==
    [id |-> i, role |-> Roles[((i - 1) % 3) + 1], topic |-> i, status |-> st]

RawIntelligence(source_scout_id, content_summary, artifact_ref_id) ==
    [source_scout_id |-> source_scout_id,
     content_summary |-> content_summary,
     artifact_ref_id |-> artifact_ref_id]

\* An artifact id str(uuid4()) is <<n>>; the empty string is <<>>.
Uuid(n) == <<n>>
EmptyString == <<>>

\* The attachment a caller may hand over: ingested earlier through
\* create_attachment_artifact, so its content already sits in the collection.
AttachmentDoc ==
    [file_name |-> "doc.md", file_type |-> "markdown",
     content_summary |-> "doc summary", full_content_ref |-> Uuid(0),
     raw_text_snippet |-> "doc"]

\* Generated texts other than audit reports: what the text is, and which
\* generation call produced it.
Text(kind, n) == [kind |-> kind, n |-> n]
EmptyText == Text("", 0)
None == Text("None", 0)

\* An audit text: the marker phrases it contains and what json.loads followed
\* by the StructuredAuditReport constructor makes of it.
NoText == [phrases |-> {}, json |-> "decode_error"]

GlobalState(request_id, status, iteration_count, scout_instructions, input_attachments) ==
    [request_id |-> request_id,
     status |-> status,
     iteration_count |-> iteration_count,
     user_feedback_history |-> <<>>,
     scout_instructions |-> scout_instructions,
     raw_intelligence |-> <<>>,
     consolidated_briefing |-> EmptyText,
     technical_correction |-> None,
     strategy_draft |-> EmptyText,
     audit_report |-> NoText,
     input_attachments |-> input_attachments]

----------------------------------------------------------------------------
(* Collaborators: text generation, web search *)

\* What llm.invoke does: returns a text or raises.
LLMError == [ok |-> FALSE, content |-> EmptyText]
LLMText(t) == [ok |-> TRUE, content |-> t]

\* Texts the auditor model may answer with.
Phrases == {"Status: Pass", "Status: PASS", "Status: Conditional",
            "Status: Reject", "Overall Status: Reject"}
Markdown(p) == [phrases |-> {p}, json |-> "decode_error"]
Json(j) == [phrases |-> {}, json |-> j]
JsonOutcomes == {"pass", "conditional", "reject", "other", "missing_key"}
AuditTexts ==
    {Markdown("Status: Pass"), Markdown("Status: Conditional"),
     Markdown("Status: Reject"), Markdown("Overall Status: Reject"), NoText}
    \cup {Json(j) : j \in JsonOutcomes}

\* "x in text" for a marker phrase x
Contains(text, phrase) == phrase \in text.phrases

----------------------------------------------------------------------------
(* tools/vector_db.py and utils/artifact.py: the artifact store *)

\* A content is a sequence of pages. RecursiveCharacterTextSplitter.split_text
\* gives one chunk per page, each chunk a text of that single page.
split_text(content) == [i \in 1..Len(content) |-> <<content[i]>>]

\* f"{artifact_id}_chunk_{i}"
ChunkId(artifact_id, i) == artifact_id \o <<"_chunk_", i>>

\* VectorDB.store_artifact: the collection after collection.add
store_artifact(coll, artifact_id, content) ==
    LET texts == IF split_text(content) = <<>> THEN <<EmptyString>>
                 ELSE split_text(content)
    IN coll \cup {[id |-> ChunkId(artifact_id, i - 1),
                   document |-> texts[i],
                   artifact_id |-> artifact_id,
                   chunk_index |-> i - 1] : i \in 1..Len(texts)}

\* collection.get(ids=[x]): the stored entries whose id is x
collection_get(coll, x) == {r \in coll : r.id = x}

NotFound == [found |-> FALSE, id |-> EmptyString, content |-> EmptyString]

\* VectorDB.retrieve_artifact
retrieve_artifact(coll, artifact_id) ==
    LET result == collection_get(coll, artifact_id)
    IN IF result # {}
       THEN LET r == CHOOSE r \in result : TRUE
            IN [found |-> TRUE, id |-> r.id, content |-> r.document]
       ELSE NotFound

\* ArtifactManager.get_artifact
get_artifact(coll, artifact_id) == retrieve_artifact(coll, artifact_id)

\* ArtifactManager.create_artifact with the n-th uuid; store_ok = FALSE when
\* the vector store raises (nothing is added then).
create_artifact(coll, n, content, store_ok) ==
    LET artifact_id == Uuid(n)
    IN IF store_ok
       THEN [raised |-> FALSE, artifact_id |-> artifact_id,
             collection |-> store_artifact(coll, artifact_id, content)]
       ELSE [raised |-> TRUE, artifact_id |-> EmptyString, collection |-> coll]

\* ArtifactManager.generate_summary(combined_content, 500) on a scout content:
\* the text itself or its truncation, which keeps naming what the content is.
generate_summary(content) == <<"summary of", content[1]>>

----------------------------------------------------------------------------
(* nodes/scout.py *)

\* Outcomes of the collaborators for one instruction: constructing the
\* ArtifactManager, the web search, the artifact store.
ScoutOutcomes ==
    {[init |-> "error", search |-> "none", store |-> "none"]}
    \cup {[init |-> "ok", search |-> s, store |-> t] :
            s \in {"results", "empty", "error"}, t \in {"ok", "error"}}

\* Mutant of combined_content: an empty result list is not told apart from a
\* failed search.
combined_content_EmptyAsFailure(search) ==
    CASE search = "results" -> <<"Title/URL/Snippet of the results">>
      [] OTHER              -> <<"Failed to perform web search for topic">>

\* combined_content of scout_instruction_async
combined_content(search) ==
    CASE search = "results" -> <<"Title/URL/Snippet of the results">>
      [] search = "empty"   -> <<"No search results found for topic">>
      [] OTHER              -> <<"Failed to perform web search for topic">>

\* scout_instruction_async: the task's result (an exception escapes only from
\* the ArtifactManager constructor, which is outside both try blocks).
scout_instruction_async(instruction, outcome, coll, n) ==
    IF outcome.init = "error"
    THEN [exception |-> TRUE, instruction |-> instruction,
          raw_intelligence |-> RawIntelligence(instruction.id, <<>>, EmptyString),
          artifact_id |-> EmptyString, collection |-> coll, uuids |-> 0,
          content |-> EmptyString]
    ELSE LET content == combined_content(outcome.search)
             made == create_artifact(coll, n, content, outcome.store = "ok")
         IN IF ~made.raised
            THEN [exception |-> FALSE,
                  instruction |-> [instruction EXCEPT !.status = "done"],
                  raw_intelligence |->
                      RawIntelligence(instruction.id, generate_summary(content),
                                      made.artifact_id),
                  artifact_id |-> made.artifact_id,
                  collection |-> made.collection, uuids |-> 1,
                  content |-> content]
            ELSE [exception |-> FALSE,
                  instruction |-> [instruction EXCEPT !.status = "done"],
                  raw_intelligence |->
                      RawIntelligence(instruction.id,
                                      <<"Failed to process content for topic">>,
                                      EmptyString),
                  artifact_id |-> EmptyString,
                  collection |-> coll, uuids |-> 1,
                  content |-> content]

\* Mutant of pending_instructions: every instruction is taken, whatever its
\* status.
pending_instructions_All(s) ==
    LET RECURSIVE Upto(_, _)
        Upto(from, acc) ==
            IF from > Len(s.scout_instructions) THEN acc
            ELSE Upto(from + 1, Append(acc, from))
    IN Upto(1, <<>>)

\* pending_instructions of scout_node: positions of the pending instructions
pending_instructions(s) ==
    LET idx == {i \in 1..Len(s.scout_instructions) :
                    s.scout_instructions[i].status = "pending"}
        RECURSIVE Sorted(_, _)
        Sorted(from, acc) ==
            IF from > Len(s.scout_instructions) THEN acc
            ELSE Sorted(from + 1, IF from \in idx THEN Append(acc, from) ELSE acc)
    IN Sorted(1, <<>>)

\* "for inst in state.scout_instructions: if inst.id == id: done; break"
MarkDoneById(instructions, id) ==
    LET hits == {i \in 1..Len(instructions) : instructions[i].id = id}
    IN IF hits = {} THEN instructions
       ELSE LET first == CHOOSE i \in hits : \A j \in hits : i <= j
            IN [instructions EXCEPT ![first].status = "done"]

\* Mutant of ProcessResult: a task that ended in an exception is logged and
\* skipped, no fallback record is appended.
ProcessResult_SkipFailed(s, pending, i, result) ==
    IF result.exception
    THEN s
    ELSE [s EXCEPT
            !.raw_intelligence = Append(@, result.raw_intelligence),
            !.scout_instructions = MarkDoneById(@, result.instruction.id)]

\* Mutant of ProcessResult: for a task that ended in an exception the fallback
\* record is appended but the instruction is not marked done.
ProcessResult_FailedStaysPending(s, pending, i, result) ==
    IF result.exception
    THEN IF i <= Len(pending)
         THEN [s EXCEPT
                 !.raw_intelligence =
                     Append(@, RawIntelligence(
                                  s.scout_instructions[pending[i]].id,
                                  <<"Failed to execute scout task for topic">>,
                                  EmptyString))]
         ELSE s
    ELSE [s EXCEPT
            !.raw_intelligence = Append(@, result.raw_intelligence),
            !.scout_instructions = MarkDoneById(@, result.instruction.id)]

\* One turn of the "for i, result in enumerate(results)" loop of scout_node
ProcessResult(s, pending, i, result) ==
    IF result.exception
    THEN IF i <= Len(pending)
         THEN [s EXCEPT
                 !.scout_instructions[pending[i]].status = "done",
                 !.raw_intelligence =
                     Append(@, RawIntelligence(
                                  s.scout_instructions[pending[i]].id,
                                  <<"Failed to execute scout task for topic">>,
                                  EmptyString))]
         ELSE s
    ELSE [s EXCEPT
            !.raw_intelligence = Append(@, result.raw_intelligence),
            !.scout_instructions = MarkDoneById(@, result.instruction.id)]

\* A loop over the results that takes them from the last to the first
RECURSIVE ProcessResults_Reversed(_, _, _, _)
ProcessResults_Reversed(s, pending, results, i) ==
    IF i > Len(results) THEN s
    ELSE ProcessResult(ProcessResults_Reversed(s, pending, results, i + 1),
                       pending, i, results[i])

RECURSIVE ProcessResults(_, _, _, _)
ProcessResults(s, pending, results, i) ==
    IF i > Len(results) THEN s
    ELSE ProcessResults(ProcessResult(s, pending, i, results[i]),
                        pending, results, i + 1)

----------------------------------------------------------------------------
(* The stages: nodes/cpso.py, nodes/io.py, nodes/auditor.py, nodes/tech.py.  *)
(* Each operator gives the state the stage leaves, whether it raised, and    *)
(* whether it called llm.invoke.                                             *)

Returned(s, gen) == [state |-> s, raised |-> FALSE, gen |-> gen]
Raised(s, gen) == [state |-> s, raised |-> TRUE, gen |-> gen]

\* cpso.py intent_analysis: the model's answer is read and dropped
intent_analysis(s, resp) ==
    IF resp.ok
    THEN Returned([s EXCEPT !.status = "scouting"], TRUE)
    ELSE Raised([s EXCEPT !.status = "awaiting_user"], TRUE)

\* io.py process_input_attachments; ok = FALSE when ArtifactManager() raises
RECURSIVE AttachmentRecords(_, _)
AttachmentRecords(attachments, i) ==
    IF i > Len(attachments) THEN <<>>
    ELSE <<RawIntelligence(<<"attachment_", attachments[i].file_name>>,
                           attachments[i].content_summary,
                           attachments[i].full_content_ref)>>
         \o AttachmentRecords(attachments, i + 1)

process_input_attachments(s, ok) ==
    IF ok
    THEN Returned([s EXCEPT !.raw_intelligence =
                       @ \o AttachmentRecords(s.input_attachments, 1)], FALSE)
    ELSE Raised([s EXCEPT !.status = "awaiting_user"], FALSE)

\* Mutant of intelligence_fusion: the except clause re-raises without
\* setting the status.
intelligence_fusion_StatusKept(s, resp) ==
    IF resp.ok
    THEN Returned([s EXCEPT !.consolidated_briefing = resp.content,
                            !.status = "drafting"], TRUE)
    ELSE Raised(s, TRUE)

\* An intelligence_fusion that consumes the correction it has read
intelligence_fusion_ClearsCorrection(s, resp) ==
    IF resp.ok
    THEN Returned([s EXCEPT !.consolidated_briefing = resp.content,
                            !.technical_correction = None,
                            !.status = "drafting"], TRUE)
    ELSE Raised([s EXCEPT !.status = "awaiting_user"], TRUE)

\* io.py intelligence_fusion: the records whose artifact is found make the input
RECURSIVE intelligence_contents(_, _, _)
intelligence_contents(s, coll, i) ==
    IF i > Len(s.raw_intelligence) THEN <<>>
    ELSE LET intelligence == s.raw_intelligence[i]
             artifact == get_artifact(coll, intelligence.artifact_ref_id)
         IN (IF artifact.found
             THEN <<[source_scout_id |-> intelligence.source_scout_id,
                     content_summary |-> intelligence.content_summary,
                     full_content |-> artifact.content]>>
             ELSE <<>>)
            \o intelligence_contents(s, coll, i + 1)

intelligence_fusion(s, resp) ==
    IF resp.ok
    THEN Returned([s EXCEPT !.consolidated_briefing = resp.content,
                            !.status = "drafting"], TRUE)
    ELSE Raised([s EXCEPT !.status = "awaiting_user"], TRUE)

\* cpso.py strategy_generation
strategy_generation(s, resp) ==
    IF resp.ok
    THEN Returned([s EXCEPT !.strategy_draft = resp.content,
                            !.status = "auditing"], TRUE)
    ELSE Raised([s EXCEPT !.status = "awaiting_user"], TRUE)

\* nodes/auditor.py adversarial_audit
adversarial_audit(s, resp) ==
    IF resp.ok
    THEN LET audit_report == resp.content
         IN Returned([s EXCEPT
                !.audit_report = audit_report,
                !.status = IF Contains(audit_report, "Status: Reject")
                              \/ Contains(audit_report, "Status: Conditional")
                           THEN "awaiting_user"
                           ELSE "completed"], TRUE)
    ELSE Raised([s EXCEPT !.status = "awaiting_user"], TRUE)

\* audit/node.py adversarial_audit: a fixed report, no generation call
audit_node_adversarial_audit(s) ==
    Returned([s EXCEPT !.audit_report = Markdown("Status: PASS"),
                       !.status = "awaiting_user"], FALSE)

\* nodes/advanced_auditor.py advanced_adversarial_audit. json.loads raises
\* JSONDecodeError on a text that is no JSON; a JSON text without the keys of
\* the report raises KeyError, which only the outer except clause catches.
advanced_adversarial_audit(s, resp) ==
    IF ~resp.ok
    THEN Raised([s EXCEPT !.status = "awaiting_user"], TRUE)
    ELSE LET audit_result_json == resp.content
         IN CASE audit_result_json.json = "decode_error" ->
                    Returned([s EXCEPT !.audit_report = audit_result_json,
                                       !.status = "awaiting_user"], TRUE)
              [] audit_result_json.json = "missing_key" ->
                    Raised([s EXCEPT !.status = "awaiting_user"], TRUE)
              [] OTHER ->
                    LET overall_status == audit_result_json.json
                    IN Returned([s EXCEPT
                           !.audit_report = Json(overall_status),
                           !.status = IF overall_status = "reject"
                                         \/ overall_status = "conditional"
                                      THEN "awaiting_user"
                                      ELSE "completed"], TRUE)

\* nodes/tech.py technical_review
MaxIterationsMessage == Text("max iterations reached, human review advised", 0)

\* Mutant of technical_review: the cap check is missing.
technical_review_NoCap(s, resp) ==
    IF resp.ok
    THEN Returned([s EXCEPT !.technical_correction = resp.content,
                            !.status = "refining",
                            !.iteration_count = @ + 1], TRUE)
    ELSE Raised([s EXCEPT !.status = "awaiting_user"], TRUE)

\* Mutant of technical_review: the cap check is off by one (> for >=).
technical_review_OffByOne(s, resp) ==
    IF s.iteration_count > 3
    THEN Returned([s EXCEPT !.technical_correction = MaxIterationsMessage,
                            !.status = "awaiting_user"], FALSE)
    ELSE IF resp.ok
         THEN Returned([s EXCEPT !.technical_correction = resp.content,
                                 !.status = "refining",
                                 !.iteration_count = @ + 1], TRUE)
         ELSE Raised([s EXCEPT !.status = "awaiting_user"], TRUE)

technical_review(s, resp) ==
    IF s.iteration_count >= 3
    THEN Returned([s EXCEPT !.technical_correction = MaxIterationsMessage,
                            !.status = "awaiting_user"], FALSE)
    ELSE IF resp.ok
         THEN Returned([s EXCEPT !.technical_correction = resp.content,
                                 !.status = "refining",
                                 !.iteration_count = @ + 1], TRUE)
         ELSE Raised([s EXCEPT !.status = "awaiting_user"], TRUE)

----------------------------------------------------------------------------
(* graph.py: the routers of create_graph *)

route_after_intent(s) ==
    IF s.input_attachments # <<>> THEN "ingestion" ELSE "scout"

\* An audit_router that sends only rejected drafts to technical_review
audit_router_RejectOnly(s) ==
    IF Contains(s.audit_report, "Status: Reject")
    THEN "technical_review"
    ELSE "END"

audit_router(s) ==
    IF Contains(s.audit_report, "Status: Reject")
       \/ Contains(s.audit_report, "Status: Conditional")
    THEN "technical_review"
    ELSE "END"

\* A technical_router whose test lets the count pass the cap once
technical_router_AboveCap(s) ==
    IF s.iteration_count > 3 THEN "END" ELSE "intelligence_fusion"

\* A technical_router whose loop re-enters at the dispatcher
technical_router_BackToScout(s) ==
    IF s.iteration_count >= 3 THEN "END" ELSE "scout"

technical_router(s) ==
    IF s.iteration_count >= 3 THEN "END" ELSE "intelligence_fusion"

----------------------------------------------------------------------------
(* A run of the compiled graph (graph.invoke), and direct calls of a stage.  *)
(* run.mode is "graph" while graph.invoke drives the stages and "direct"     *)
(* when a caller applies stages and StateManager operations one at a time.   *)

NoScout == [pending |-> <<>>, results |-> <<>>]

NoRun(mode, ic) ==
    [mode |-> mode, start_ic |-> ic, loops |-> 0, audits |-> 0,
     all_reject |-> TRUE, tech_gen |-> 0, fusions |-> 0, ops |-> 0,
     intents |-> 0, ingestions |-> 0, scouts |-> 0, drafts |-> 0, reviews |-> 0]

Did(op, r, n) == [op |-> op, raised |-> r.raised, gen |-> r.gen, n |-> n]

\* The stage is the next one to run: the graph is at its node, or a caller
\* applies it directly.
At(node) ==
    \/ run.mode = "graph" /\ pc = node
    \/ run.mode = "direct" /\ pc = "idle" /\ run.ops < MaxOps

\* Where control goes after a stage: along the edge in a run of the graph,
\* back to the caller otherwise.
Goto(r, target) ==
    IF run.mode = "graph"
    THEN (IF r.raised THEN "raised" ELSE target)
    ELSE "idle"

Count(field) == [run EXCEPT ![field] = @ + 1, !.ops = @ + 1]

\* States a caller may hand to graph.invoke
RECURSIVE InstructionLists(_)
InstructionLists(n) ==
    IF n = 0 THEN {<<>>}
    ELSE InstructionLists(n - 1)
         \cup {Append(l, ScoutInstruction(n, st)) :
                 l \in {x \in InstructionLists(n - 1) : Len(x) = n - 1},
                 st \in {"pending", "done"}}

Init ==
    /\ \E ic \in 0..MaxStartIter, instrs \in InstructionLists(MaxInstr),
          atts \in {<<>>, <<AttachmentDoc>>} :
          /\ state = GlobalState("request", "scouting", ic, instrs, atts)
          /\ collection = IF atts = <<>> THEN {}
                          ELSE store_artifact({}, Uuid(0), <<"doc">>)
          /\ created = IF atts = <<>> THEN {}
                       ELSE {[artifact_id |-> Uuid(0), content |-> <<"doc">>]}
          /\ run = NoRun("graph", ic)
    /\ next_uuid = 1
    /\ pc = "intent_analysis"
    /\ scout = NoScout
    /\ pre = state
    /\ last = [op |-> "invoke", raised |-> FALSE, gen |-> FALSE, n |-> 0]

Responses(t) == {LLMText(t), LLMError}

NodeIntentAnalysis ==
    /\ At("intent_analysis")
    /\ \E resp \in Responses(Text("instructions", 1)) :
         LET r == intent_analysis(state, resp)
         IN /\ state' = r.state
            /\ pc' = Goto(r, route_after_intent(r.state))
            /\ last' = Did("intent_analysis", r, 0)
    /\ pre' = state
    /\ run' = Count("intents")
    /\ UNCHANGED <<collection, next_uuid, created, scout>>

NodeIngestion ==
    /\ At("ingestion")
    /\ \E ok \in BOOLEAN :
         LET r == process_input_attachments(state, ok)
         IN /\ state' = r.state
            /\ pc' = Goto(r, "scout")
            /\ last' = Did("ingestion", r, Len(state.input_attachments))
    /\ pre' = state
    /\ run' = Count("ingestions")
    /\ UNCHANGED <<collection, next_uuid, created, scout>>

\* scout_node up to asyncio.run: the pending instructions are collected and
\* one task per instruction is created; loop_ok = FALSE when asyncio.run
\* raises, which the except clause of scout_node turns into awaiting_user.
ScoutNodeStart ==
    /\ At("scout")
    /\ \E loop_ok \in BOOLEAN :
         IF loop_ok
         THEN /\ scout' = [pending |-> pending_instructions(state), results |-> <<>>]
              /\ state' = state
              /\ pc' = "scout_tasks"
              /\ last' = [op |-> "scout_node_started", raised |-> FALSE,
                          gen |-> FALSE, n |-> Len(pending_instructions(state))]
         ELSE /\ scout' = NoScout
              /\ state' = [state EXCEPT !.status = "awaiting_user"]
              /\ pc' = Goto(Raised(state, FALSE), "raised")
              /\ last' = [op |-> "scout_node", raised |-> TRUE, gen |-> FALSE,
                          n |-> Len(pending_instructions(state))]
    /\ pre' = state
    /\ run' = Count("scouts")
    /\ UNCHANGED <<collection, next_uuid, created>>

\* The event loop runs the next task: a task has no suspension point (the
\* search and the store are blocking calls), so it runs to its end.
ScoutTask ==
    /\ pc = "scout_tasks"
    /\ Len(scout.results) < Len(scout.pending)
    /\ \E outcome \in ScoutOutcomes :
         LET i == scout.pending[Len(scout.results) + 1]
             r == scout_instruction_async(state.scout_instructions[i], outcome,
                                          collection, next_uuid)
         IN /\ state' = [state EXCEPT !.scout_instructions[i] = r.instruction]
            /\ collection' = r.collection
            /\ next_uuid' = next_uuid + r.uuids
            /\ created' = IF r.artifact_id = EmptyString THEN created
                          ELSE created \cup {[artifact_id |-> r.artifact_id,
                                               content |-> r.content]}
            /\ scout' = [scout EXCEPT !.results = Append(@, r)]
    /\ UNCHANGED <<pc, pre, last, run>>

\* asyncio.gather has every result: the loop over the results, and the return
ScoutNodeCollect ==
    /\ pc = "scout_tasks"
    /\ Len(scout.results) = Len(scout.pending)
    /\ state' = ProcessResults(state, scout.pending, scout.results, 1)
    /\ pc' = Goto(Returned(state, FALSE), "intelligence_fusion")
    /\ last' = [op |-> "scout_node", raised |-> FALSE, gen |-> FALSE,
                n |-> Len(scout.pending)]
    /\ scout' = NoScout
    /\ UNCHANGED <<collection, next_uuid, created, pre, run>>

NodeIntelligenceFusion ==
    /\ At("intelligence_fusion")
    /\ \E resp \in Responses(Text("briefing", run.fusions + 1)) :
         LET r == intelligence_fusion(state, resp)
         IN /\ state' = r.state
            /\ pc' = Goto(r, "strategy_generation")
            /\ last' = Did("intelligence_fusion", r,
                           Len(intelligence_contents(state, collection, 1)))
    /\ pre' = state
    /\ run' = Count("fusions")
    /\ UNCHANGED <<collection, next_uuid, created, scout>>

NodeStrategyGeneration ==
    /\ At("strategy_generation")
    /\ \E resp \in Responses(Text("draft", run.fusions)) :
         LET r == strategy_generation(state, resp)
         IN /\ state' = r.state
            /\ pc' = Goto(r, "adversarial_audit")
            /\ last' = Did("strategy_generation", r, 0)
    /\ pre' = state
    /\ run' = Count("drafts")
    /\ UNCHANGED <<collection, next_uuid, created, scout>>

NodeAdversarialAudit ==
    /\ At("adversarial_audit")
    /\ \E resp \in {LLMText(t) : t \in AuditTexts} \cup {LLMError} :
         LET r == adversarial_audit(state, resp)
         IN /\ state' = r.state
            /\ pc' = Goto(r, audit_router(r.state))
            /\ last' = Did("adversarial_audit", r, 0)
            /\ run' = [run EXCEPT
                         !.audits = @ + 1, !.ops = @ + 1,
                         !.all_reject = @ /\ resp.ok
                                          /\ Contains(resp.content, "Status: Reject")]
    /\ pre' = state
    /\ UNCHANGED <<collection, next_uuid, created, scout>>

NodeTechnicalReview ==
    /\ At("technical_review")
    /\ \E resp \in Responses(Text("correction", state.iteration_count + 1)) :
         LET r == technical_review(state, resp)
             to == technical_router(r.state)
         IN /\ state' = r.state
            /\ pc' = Goto(r, to)
            /\ last' = Did("technical_review", r, 0)
            /\ run' = [run EXCEPT
                         !.ops = @ + 1,
                         !.reviews = @ + 1,
                         !.tech_gen = @ + (IF r.gen THEN 1 ELSE 0),
                         !.loops = @ + (IF ~r.raised /\ to = "intelligence_fusion"
                                        THEN 1 ELSE 0)]
    /\ pre' = state
    /\ UNCHANGED <<collection, next_uuid, created, scout>>

Next ==
    \/ NodeIntentAnalysis
    \/ NodeIngestion
    \/ ScoutNodeStart
    \/ ScoutTask
    \/ ScoutNodeCollect
    \/ NodeIntelligenceFusion
    \/ NodeStrategyGeneration
    \/ NodeAdversarialAudit
    \/ NodeTechnicalReview

Spec == Init /\ [][Next]_vars

\* A run of the graph in which the event loop keeps going: every task that
\* asyncio.gather holds is run (its search and store calls return or fail), and
\* once all results are in, gather returns and scout_node goes on.
SpecLive ==
    Init /\ [][Next]_vars /\ WF_vars(ScoutTask) /\ WF_vars(ScoutNodeCollect)

\* A run of the graph in which every call returns or fails: graph.invoke keeps
\* executing the stage the run is at.
SpecRun == Init /\ [][Next]_vars /\ WF_vars(Next)

----------------------------------------------------------------------------
(* nodes/scout.py: the event loop of asyncio.run(process_instructions()).     *)
(* asyncio.gather wraps each coroutine scout_instruction_async(instruction)   *)
(* in a task; the loop runs one task at a time and takes another one only     *)
(* when the running task is suspended at an await or has returned.            *)

\* Positions of a task in scout_instruction_async: not started; in the call
\* of web_search; in the call of create_artifact; returned.
TaskPositions == {"created", "search", "store", "finished"}

\* The positions at which scout_instruction_async awaits: the coroutine holds
\* no await expression, web_search and create_artifact are plain calls.
AwaitPoints == {}

NoResult ==
    [exception |-> FALSE, instruction |-> ScoutInstruction(1, "pending"),
     raw_intelligence |-> RawIntelligence(0, <<>>, EmptyString),
     artifact_id |-> EmptyString, collection |-> {}, uuids |-> 0,
     content |-> EmptyString]

InProgress(k) == scout.pos[k] \in {"search", "store"}

\* The event loop may hand control to a task other than the running one
Yielded ==
    IF scout.running = 0 THEN TRUE
    ELSE scout.pos[scout.running] \in AwaitPoints

\* Task k may take its next step
Scheduled(k) == IF scout.running = k THEN TRUE ELSE Yielded

\* One call of scout_node on n pending instructions, up to asyncio.run
InitLoop ==
    /\ \E n \in 1..MaxTasks :
         /\ state = GlobalState("request", "scouting", 0,
                                [i \in 1..n |-> ScoutInstruction(i, "pending")],
                                <<>>)
         /\ scout = [pending |-> pending_instructions(state),
                     pos |-> [k \in 1..n |-> "created"],
                     search |-> [k \in 1..n |-> "none"],
                     results |-> [k \in 1..n |-> NoResult],
                     running |-> 0,
                     overlapped |-> FALSE]
    /\ collection = {}
    /\ created = {}
    /\ next_uuid = 1
    /\ pc = "scout_tasks"
    /\ pre = state
    /\ last = [op |-> "scout_node_started", raised |-> FALSE, gen |-> FALSE,
               n |-> Len(state.scout_instructions)]
    /\ run = NoRun("loop", 0)

\* The first step of the next task in the loop's queue: ArtifactManager() and
\* the call of web_search (or the exception of the constructor, which ends
\* the task).
LoopStartsTask ==
    /\ pc = "scout_tasks"
    /\ Yielded
    /\ \E k \in 1..Len(scout.pending) :
         /\ scout.pos[k] = "created"
         /\ \A j \in 1..(k - 1) : scout.pos[j] # "created"
         /\ \E init \in {"ok", "error"} :
              IF init = "ok"
              THEN /\ scout' = [scout EXCEPT
                          !.pos[k] = "search",
                          !.running = k,
                          !.overlapped =
                              @ \/ \E j \in 1..Len(scout.pending) : InProgress(j)]
              ELSE /\ scout' = [scout EXCEPT
                          !.pos[k] = "finished",
                          !.running = 0,
                          !.results[k] =
                              scout_instruction_async(
                                  state.scout_instructions[scout.pending[k]],
                                  [init |-> "error", search |-> "none",
                                   store |-> "none"],
                                  collection, next_uuid)]
    /\ UNCHANGED <<state, collection, next_uuid, created, pc, pre, last, run>>

\* web_search returns a list, possibly empty, or raises
TaskSearchReturns ==
    /\ pc = "scout_tasks"
    /\ \E k \in 1..Len(scout.pending), found \in {"results", "empty", "error"} :
         /\ scout.pos[k] = "search"
         /\ Scheduled(k)
         /\ scout' = [scout EXCEPT !.pos[k] = "store", !.search[k] = found,
                                   !.running = k]
    /\ UNCHANGED <<state, collection, next_uuid, created, pc, pre, last, run>>

\* create_artifact returns or raises, and the coroutine returns its tuple
TaskStoreReturns ==
    /\ pc = "scout_tasks"
    /\ \E k \in 1..Len(scout.pending), stored \in {"ok", "error"} :
         LET i == scout.pending[k]
             r == scout_instruction_async(
                      state.scout_instructions[i],
                      [init |-> "ok", search |-> scout.search[k],
                       store |-> stored],
                      collection, next_uuid)
         IN /\ scout.pos[k] = "store"
            /\ Scheduled(k)
            /\ state' = [state EXCEPT !.scout_instructions[i] = r.instruction]
            /\ collection' = r.collection
            /\ next_uuid' = next_uuid + r.uuids
            /\ created' = IF r.artifact_id = EmptyString THEN created
                          ELSE created \cup {[artifact_id |-> r.artifact_id,
                                               content |-> r.content]}
            /\ scout' = [scout EXCEPT !.pos[k] = "finished", !.running = 0,
                                      !.results[k] = r]
    /\ UNCHANGED <<pc, pre, last, run>>

\* asyncio.gather returns the results in the order of the tasks, and
\* scout_node runs its loop over them and returns
GatherReturns ==
    /\ pc = "scout_tasks"
    /\ \A k \in 1..Len(scout.pending) : scout.pos[k] = "finished"
    /\ state' = ProcessResults(state, scout.pending, scout.results, 1)
    /\ pc' = "gathered"
    /\ last' = [op |-> "scout_node", raised |-> FALSE, gen |-> FALSE,
                n |-> Len(scout.pending)]
    /\ UNCHANGED <<collection, next_uuid, created, scout, pre, run>>

NextLoop ==
    \/ LoopStartsTask
    \/ TaskSearchReturns
    \/ TaskStoreReturns
    \/ GatherReturns

SpecLoop == InitLoop /\ [][NextLoop]_vars

----------------------------------------------------------------------------
(* state_manager.py: a request handled through a StateManager, whose state   *)
(* the caller also passes to stages one at a time.                           *)

UserFeedback(type) == [role |-> "user", type |-> type, content |-> "feedback"]

\* StateManager.add_user_feedback
add_user_feedback(s, feedback_type) ==
    [s EXCEPT !.user_feedback_history = Append(@, UserFeedback(feedback_type)),
              !.iteration_count = @ + 1]

\* StateManager.update_state with one keyword argument
update_state(s, key, value) ==
    IF key \in DOMAIN s THEN [s EXCEPT ![key] = value] ELSE s

\* StateManager.add_scout_instruction; n stands for the uuid4 drawn
add_scout_instruction(s, n, role) ==
    [s EXCEPT !.scout_instructions =
        Append(@, [id |-> n, role |-> role, topic |-> n, status |-> "pending"])]

\* StateManager.update_scout_status: the first instruction with that id
update_scout_status(s, instruction_id, status) ==
    LET hits == {i \in 1..Len(s.scout_instructions) :
                    s.scout_instructions[i].id = instruction_id}
    IN IF hits = {} THEN s
       ELSE LET first == CHOOSE i \in hits : \A j \in hits : i <= j
            IN [s EXCEPT !.scout_instructions[first].status = status]

\* StateManager.transition_to
transition_to(s, status) == [s EXCEPT !.status = status]

\* StateManager.reset_state
reset_state(s) == GlobalState(s.request_id, "scouting", 0, <<>>, <<>>)

\* StateManager._initialize_state for a request with no checkpoint
InitSM ==
    /\ state = GlobalState("request", "scouting", 0, <<>>, <<>>)
    /\ collection = {}
    /\ created = {}
    /\ next_uuid = 1
    /\ pc = "idle"
    /\ scout = NoScout
    /\ pre = state
    /\ last = [op |-> "StateManager", raised |-> FALSE, gen |-> FALSE, n |-> 0]
    /\ run = NoRun("direct", 0)

Operation(op, s) ==
    /\ state' = s
    /\ pre' = state
    /\ last' = [op |-> op, raised |-> FALSE, gen |-> FALSE, n |-> 0]
    /\ run' = [run EXCEPT !.ops = @ + 1]

AddUserFeedback ==
    /\ At("StateManager")
    /\ \E feedback_type \in {"strategic", "technical"} :
         Operation("add_user_feedback", add_user_feedback(state, feedback_type))
    /\ UNCHANGED <<collection, next_uuid, created, pc, scout>>

\* Values a caller passes to update_state: counts within the cap, any status,
\* a string that is no member of GlobalStateStatus (setattr validates
\* nothing), another request id; "priority" is no field of GlobalState.
UpdateState ==
    /\ At("StateManager")
    /\ \E kv \in ({"iteration_count"} \X (0..MAX_ITERATIONS))
                 \cup ({"status"} \X GlobalStateStatus)
                 \cup {<<"status", "archived">>}
                 \cup {<<"request_id", "other request">>}
                 \cup {<<"priority", 1>>} :
         Operation("update_state", update_state(state, kv[1], kv[2]))
    /\ UNCHANGED <<collection, next_uuid, created, pc, scout>>

AddScoutInstruction ==
    /\ At("StateManager")
    /\ \E role \in {"market", "tech", "competitor"} :
         Operation("add_scout_instruction",
                   add_scout_instruction(state, next_uuid, role))
    /\ next_uuid' = next_uuid + 1
    /\ UNCHANGED <<collection, created, pc, scout>>

UpdateScoutStatus ==
    /\ At("StateManager")
    /\ \E instruction_id \in 1..next_uuid, status \in {"pending", "done"} :
         Operation("update_scout_status",
                   update_scout_status(state, instruction_id, status))
    /\ UNCHANGED <<collection, next_uuid, created, pc, scout>>

TransitionTo ==
    /\ At("StateManager")
    /\ \E status \in GlobalStateStatus :
         Operation("transition_to", transition_to(state, status))
    /\ UNCHANGED <<collection, next_uuid, created, pc, scout>>

ResetState ==
    /\ At("StateManager")
    /\ Operation("reset_state", reset_state(state))
    /\ UNCHANGED <<collection, next_uuid, created, pc, scout>>

NodeAuditNode ==
    /\ At("audit_node")
    /\ LET r == audit_node_adversarial_audit(state)
       IN /\ state' = r.state
          /\ last' = Did("audit_node_adversarial_audit", r, 0)
    /\ pre' = state
    /\ run' = [run EXCEPT !.ops = @ + 1]
    /\ UNCHANGED <<collection, next_uuid, created, pc, scout>>

NodeAdvancedAudit ==
    /\ At("advanced_adversarial_audit")
    /\ \E resp \in {LLMText(t) : t \in AuditTexts} \cup {LLMError} :
         LET r == advanced_adversarial_audit(state, resp)
         IN /\ state' = r.state
            /\ last' = Did("advanced_adversarial_audit", r, 0)
    /\ pre' = state
    /\ run' = [run EXCEPT !.ops = @ + 1]
    /\ UNCHANGED <<collection, next_uuid, created, pc, scout>>

NextSM ==
    \/ AddUserFeedback
    \/ UpdateState
    \/ AddScoutInstruction
    \/ UpdateScoutStatus
    \/ TransitionTo
    \/ ResetState
    \/ NodeAuditNode
    \/ NodeAdvancedAudit
    \/ NodeIntentAnalysis
    \/ NodeIngestion
    \/ ScoutNodeStart
    \/ ScoutTask
    \/ ScoutNodeCollect
    \/ NodeIntelligenceFusion
    \/ NodeStrategyGeneration
    \/ NodeAdversarialAudit
    \/ NodeTechnicalReview

SpecSM == InitSM /\ [][NextSM]_vars

----------------------------------------------------------------------------
(* state_manager.py: checkpoints. run.redis_client is the client the        *)
(* constructor ended with ("None" when REDIS_URL is unset or the ping        *)
(* failed), run.redis the value stored under cpso_state:{request_id} for     *)
(* each request id (<<>> when the key is absent), run.logged the level of    *)
(* the last message save_checkpoint logged, run.saved the state of the last  *)
(* save_checkpoint that succeeded for each request id (<<>> when the value   *)
(* under the key comes from no such call).                                   *)

RequestIds == {"request", "other request"}

RedisClients == {"None", "client"}

\* What the two redis_client.set calls of save_checkpoint do: both succeed,
\* the first raises, or the second (the timestamp) raises.
SetOutcomes == {"ok", "set_error", "timestamp_error"}

JsonNull == Text("null", 0)

\* GlobalState.json(): the fields as a JSON document, None written as null
json(s) ==
    [request_id |-> s.request_id,
     status |-> s.status,
     iteration_count |-> s.iteration_count,
     user_feedback_history |-> s.user_feedback_history,
     scout_instructions |-> s.scout_instructions,
     raw_intelligence |-> s.raw_intelligence,
     consolidated_briefing |-> s.consolidated_briefing,
     technical_correction |->
        IF s.technical_correction = None THEN JsonNull ELSE s.technical_correction,
     strategy_draft |-> s.strategy_draft,
     audit_report |-> s.audit_report,
     input_attachments |-> s.input_attachments,
     audit_config |-> JsonNull]

\* GlobalState(**json.loads(state_json)): the model validates the fields
GlobalState_parse(d) ==
    IF /\ d.status \in GlobalStateStatus
       /\ d.iteration_count \in Int
       /\ \A i \in 1..Len(d.scout_instructions) :
             d.scout_instructions[i].status \in {"pending", "done"}
    THEN <<[request_id |-> d.request_id,
            status |-> d.status,
            iteration_count |-> d.iteration_count,
            user_feedback_history |-> d.user_feedback_history,
            scout_instructions |-> d.scout_instructions,
            raw_intelligence |-> d.raw_intelligence,
            consolidated_briefing |-> d.consolidated_briefing,
            technical_correction |->
               IF d.technical_correction = JsonNull THEN None
               ELSE d.technical_correction,
            strategy_draft |-> d.strategy_draft,
            audit_report |-> d.audit_report,
            input_attachments |-> d.input_attachments]>>
    ELSE <<>>

\* A save_checkpoint that lets the failure of a write reach its caller
save_checkpoint_Raises(s, redis_client, redis, outcome) ==
    IF redis_client = "None"
    THEN [state |-> s, raised |-> FALSE, redis |-> redis, logged |-> "debug"]
    ELSE IF outcome = "ok"
    THEN [state |-> s, raised |-> FALSE,
          redis |-> [redis EXCEPT ![s.request_id] = <<json(s)>>],
          logged |-> "info"]
    ELSE [state |-> s, raised |-> TRUE,
          redis |-> IF outcome = "set_error" THEN redis
                    ELSE [redis EXCEPT ![s.request_id] = <<json(s)>>],
          logged |-> "none"]

\* StateManager.save_checkpoint
save_checkpoint(s, redis_client, redis, outcome) ==
    IF redis_client = "None"
    THEN [state |-> s, raised |-> FALSE, redis |-> redis, logged |-> "debug"]
    ELSE IF outcome = "set_error"
    THEN [state |-> s, raised |-> FALSE, redis |-> redis, logged |-> "error"]
    ELSE IF outcome = "timestamp_error"
    THEN [state |-> s, raised |-> FALSE,
          redis |-> [redis EXCEPT ![s.request_id] = <<json(s)>>],
          logged |-> "error"]
    ELSE [state |-> s, raised |-> FALSE,
          redis |-> [redis EXCEPT ![s.request_id] = <<json(s)>>],
          logged |-> "info"]

\* StateManager.restore_state: <<>> stands for None; get_ok is whether
\* redis_client.get returned
restore_state(request_id, redis_client, redis, get_ok) ==
    IF redis_client = "None" THEN <<>>
    ELSE IF ~get_ok THEN <<>>
    ELSE IF redis[request_id] # <<>>
    THEN GlobalState_parse(redis[request_id][1])
    ELSE <<>>

\* StateManager._initialize_state called with a request id
initialize_state(request_id, redis_client, redis, get_ok) ==
    LET restored_state == restore_state(request_id, redis_client, redis, get_ok)
    IN IF restored_state # <<>> THEN restored_state[1]
       ELSE GlobalState(request_id, "scouting", 0, <<>>, <<>>)

InitCheckpoint ==
    /\ state = GlobalState("request", "scouting", 0, <<>>, <<>>)
    /\ collection = {}
    /\ created = {}
    /\ next_uuid = 1
    /\ pc = "idle"
    /\ scout = NoScout
    /\ pre = state
    /\ last = [op |-> "StateManager", raised |-> FALSE, gen |-> FALSE, n |-> 0]
    /\ \E redis_client \in RedisClients :
         run = NoRun("direct", 0)
               @@ [redis_client |-> redis_client,
                   redis |-> [id \in RequestIds |-> <<>>],
                   saved |-> [id \in RequestIds |-> <<>>],
                   logged |-> "none"]

SaveCheckpoint ==
    /\ At("StateManager")
    /\ \E outcome \in SetOutcomes :
         LET r == save_checkpoint(state, run.redis_client, run.redis, outcome)
         IN /\ state' = r.state
            /\ last' = [op |-> "save_checkpoint", raised |-> r.raised,
                        gen |-> FALSE, n |-> 0]
            /\ run' = [run EXCEPT
                         !.ops = @ + 1, !.redis = r.redis, !.logged = r.logged,
                         !.saved =
                             IF run.redis_client = "None" \/ outcome = "set_error"
                             THEN @
                             ELSE [@ EXCEPT ![state.request_id] =
                                     IF outcome = "ok" THEN <<state>> ELSE <<>>]]
    /\ pre' = state
    /\ UNCHANGED <<collection, next_uuid, created, pc, scout>>

\* The process ends and a later one constructs StateManager(request_id)
Restart ==
    /\ At("StateManager")
    /\ \E request_id \in RequestIds, redis_client \in RedisClients,
          get_ok \in BOOLEAN :
         /\ state' = initialize_state(request_id, redis_client, run.redis, get_ok)
         /\ run' = [run EXCEPT !.ops = @ + 1, !.redis_client = redis_client,
                               !.logged = "none"]
         /\ last' = [op |-> "StateManager", raised |-> FALSE, gen |-> FALSE,
                     n |-> 0, request_id |-> request_id, get_ok |-> get_ok]
    /\ pre' = state
    /\ UNCHANGED <<collection, next_uuid, created, pc, scout>>

NextCheckpoint ==
    \/ AddUserFeedback
    \/ UpdateState
    \/ AddScoutInstruction
    \/ TransitionTo
    \/ ResetState
    \/ SaveCheckpoint
    \/ Restart

SpecCheckpoint == InitCheckpoint /\ [][NextCheckpoint]_vars

----------------------------------------------------------------------------
(* api/index.py: the tools of the MCP server. run.anthropic and run.openai    *)
(* say which of ANTHROPIC_API_KEY and OPENAI_API_KEY the process was started  *)
(* with, run.responses holds what the tools have returned so far.             *)

\* check_api_keys, whose value at import time is API_KEYS_CONFIGURED
check_api_keys(anthropic_key, openai_key) == anthropic_key \/ openai_key

\* get_llm followed by llm.invoke: with a key the generation service answers
\* or fails; with no key get_llm builds the Anthropic client without
\* credentials, and the constructor or the call raises.
ClientResponses(anthropic_key, openai_key, t) ==
    IF anthropic_key \/ openai_key THEN Responses(t) ELSE {LLMError}

\* The texts a tool returns
ConfigurationError(tool) ==
    [tool |-> tool, kind |-> "configuration_error",
     code |-> "API_KEY_NOT_CONFIGURED", gen |-> FALSE, text |-> <<>>]
ErrorText(tool, gen) ==
    [tool |-> tool, kind |-> "error", code |-> "", gen |-> gen,
     text |-> <<"str(e)">>]
ResultText(tool, gen, text) ==
    [tool |-> tool, kind |-> "result", code |-> "", gen |-> gen, text |-> text]

\* analyze_intent_impl
analyze_intent_impl(resp) ==
    LET r == intent_analysis(GlobalState("request", "scouting", 0, <<>>, <<>>),
                             resp)
    IN IF r.raised THEN ErrorText("analyze_intent", r.gen)
       ELSE ResultText("analyze_intent", r.gen, r.state.scout_instructions)

\* generate_strategy_impl
generate_strategy_impl(resp) ==
    LET r == strategy_generation(
                 GlobalState("request", "drafting", 0, <<>>, <<>>), resp)
    IN IF r.raised THEN ErrorText("generate_strategy", r.gen)
       ELSE ResultText("generate_strategy", r.gen, <<r.state.strategy_draft>>)

\* audit_strategy_impl
audit_strategy_impl(resp) ==
    LET r == adversarial_audit(
                 GlobalState("request", "auditing", 0, <<>>, <<>>), resp)
    IN IF r.raised THEN ErrorText("audit_strategy", r.gen)
       ELSE ResultText("audit_strategy", r.gen, <<r.state.audit_report>>)

\* An execute_strategy_impl whose except clause returns what the run had
\* produced when it failed
execute_strategy_result_PartialOnError(result_state, raised) ==
    ResultText("execute_strategy", TRUE,
               <<result_state.strategy_draft, result_state.audit_report,
                 result_state.request_id>>)

\* execute_strategy_impl after graph.invoke: the document built from the
\* state the graph returned, or the error text of the except clause
execute_strategy_result(result_state, raised) ==
    IF raised
    THEN ErrorText("execute_strategy", TRUE)
    ELSE ResultText("execute_strategy", TRUE,
                    <<result_state.strategy_draft, result_state.audit_report,
                      result_state.request_id>>)

\* The server process after import, no tool called yet
InitTools ==
    /\ \E anthropic_key, openai_key \in BOOLEAN :
         run = NoRun("graph", 0)
               @@ [anthropic |-> anthropic_key, openai |-> openai_key,
                   responses |-> <<>>]
    /\ state = GlobalState("request", "scouting", 0, <<>>, <<>>)
    /\ collection = {}
    /\ created = {}
    /\ next_uuid = 1
    /\ pc = "idle"
    /\ scout = NoScout
    /\ pre = state
    /\ last = [op |-> "import", raised |-> FALSE, gen |-> FALSE, n |-> 0]

API_KEYS_CONFIGURED == check_api_keys(run.anthropic, run.openai)

ToolIdle == pc = "idle" /\ Len(run.responses) < MaxCalls

Respond(result) == [run EXCEPT !.responses = Append(@, result)]

\* execute_strategy_impl up to graph.invoke: the configuration error, or a
\* fresh request state handed to the compiled graph
ExecuteStrategyBegin ==
    IF ~API_KEYS_CONFIGURED
    THEN /\ run' = Respond(ConfigurationError("execute_strategy"))
         /\ UNCHANGED <<state, pc, pre>>
    ELSE /\ state' = GlobalState("request", "scouting", 0, <<>>, <<>>)
         /\ pre' = state'
         /\ pc' = "intent_analysis"
         /\ run' = NoRun("graph", 0)
                   @@ [anthropic |-> run.anthropic, openai |-> run.openai,
                       responses |-> run.responses]

ExecuteStrategyStart ==
    /\ ToolIdle
    /\ ExecuteStrategyBegin
    /\ last' = [op |-> "execute_strategy", raised |-> FALSE, gen |-> FALSE,
                n |-> 0]
    /\ UNCHANGED <<collection, next_uuid, created, scout>>

\* execute_strategy_impl after graph.invoke: the document, or the error text
\* of the except clause
ExecuteStrategyReturn ==
    /\ pc \in {"END", "raised"}
    /\ run' = Respond(execute_strategy_result(state, pc = "raised"))
    /\ pc' = "idle"
    /\ UNCHANGED <<state, collection, next_uuid, created, scout, pre, last>>

AnalyzeIntent ==
    /\ ToolIdle
    /\ \E resp \in ClientResponses(run.anthropic, run.openai,
                                   Text("instructions", 1)) :
         run' = Respond(analyze_intent_impl(resp))
    /\ last' = [op |-> "analyze_intent", raised |-> FALSE, gen |-> FALSE, n |-> 0]
    /\ UNCHANGED <<state, collection, next_uuid, created, pc, scout, pre>>

GenerateStrategy ==
    /\ ToolIdle
    /\ \E resp \in ClientResponses(run.anthropic, run.openai, Text("draft", 1)) :
         run' = Respond(generate_strategy_impl(resp))
    /\ last' = [op |-> "generate_strategy", raised |-> FALSE, gen |-> FALSE,
                n |-> 0]
    /\ UNCHANGED <<state, collection, next_uuid, created, pc, scout, pre>>

AuditStrategy ==
    /\ ToolIdle
    /\ \E resp \in IF API_KEYS_CONFIGURED
                   THEN {LLMText(t) : t \in AuditTexts} \cup {LLMError}
                   ELSE {LLMError} :
         run' = Respond(audit_strategy_impl(resp))
    /\ last' = [op |-> "audit_strategy", raised |-> FALSE, gen |-> FALSE, n |-> 0]
    /\ UNCHANGED <<state, collection, next_uuid, created, pc, scout, pre>>

\* The graph run of execute_strategy starts with no instruction and no
\* attachment, so the ingestion node and the research tasks never run in it.
NextTools ==
    \/ ExecuteStrategyStart
    \/ ExecuteStrategyReturn
    \/ AnalyzeIntent
    \/ GenerateStrategy
    \/ AuditStrategy
    \/ NodeIntentAnalysis
    \/ ScoutNodeStart
    \/ ScoutNodeCollect
    \/ NodeIntelligenceFusion
    \/ NodeStrategyGeneration
    \/ NodeAdversarialAudit
    \/ NodeTechnicalReview

SpecTools == InitTools /\ [][NextTools]_vars

----------------------------------------------------------------------------
(* api/index.py call_tool: the dispatch of a tool call on its name, after    *)
(* the test of its required arguments. An argument is "missing" when         *)
(* arguments.get returns None, "empty" when it is the empty string.          *)

ToolNames ==
    {"execute_strategy", "analyze_intent", "search_market", "search_competitor",
     "generate_strategy", "audit_strategy"}

CalledNames == ToolNames \cup {"no_such_tool"}

\* list_tools: the "required" entry of each tool's inputSchema
RequiredArguments(name) ==
    CASE name \in {"execute_strategy", "analyze_intent"} -> {"user_intent"}
      [] name \in {"search_market", "search_competitor"} -> {"topic"}
      [] name = "generate_strategy" -> {"intelligence_briefing"}
      [] name = "audit_strategy" -> {"strategy_draft", "intelligence_briefing"}
      [] OTHER -> {}

ArgumentValues == {"missing", "empty", "text"}

\* The arguments of a call: the optional ones a caller adds are read by no
\* branch of call_tool, so a call carries values for the required ones
ArgumentsOf(name) == [RequiredArguments(name) -> ArgumentValues]

\* "not x" for the value of arguments.get(...)
Falsy(value) == value \in {"missing", "empty"}

\* The exception call_tool raises
ValueError(name) ==
    [tool |-> name, kind |-> "raised", code |-> "ValueError", gen |-> FALSE,
     text |-> <<>>]

\* A call_tool that tests its arguments against None only
call_tool_NoneOnly(name, arguments) ==
    LET Absent(a) == arguments[a] = "missing"
    IN CASE name \in {"execute_strategy", "analyze_intent"} ->
              IF Absent("user_intent") THEN "ValueError" ELSE name
         [] name \in {"search_market", "search_competitor"} ->
              IF Absent("topic") THEN "ValueError" ELSE name
         [] name = "generate_strategy" ->
              IF Absent("intelligence_briefing") THEN "ValueError" ELSE name
         [] name = "audit_strategy" ->
              IF Absent("strategy_draft") \/ Absent("intelligence_briefing")
              THEN "ValueError" ELSE name
         [] OTHER -> "ValueError"

\* call_tool up to the call of an implementation: the implementation it
\* invokes, or "ValueError"
call_tool(name, arguments) ==
    CASE name \in {"execute_strategy", "analyze_intent"} ->
           IF Falsy(arguments["user_intent"]) THEN "ValueError" ELSE name
      [] name \in {"search_market", "search_competitor"} ->
           IF Falsy(arguments["topic"]) THEN "ValueError" ELSE name
      [] name = "generate_strategy" ->
           IF Falsy(arguments["intelligence_briefing"]) THEN "ValueError" ELSE name
      [] name = "audit_strategy" ->
           IF Falsy(arguments["strategy_draft"])
              \/ Falsy(arguments["intelligence_briefing"])
           THEN "ValueError" ELSE name
      [] OTHER -> "ValueError"

\* search_market_impl and search_competitor_impl: web_search is called, and
\* its results or its error make the text
search_impl(tool, found) ==
    IF found = "error" THEN ErrorText(tool, TRUE)
    ELSE ResultText(tool, TRUE, <<found>>)

CallTool ==
    /\ ToolIdle
    /\ \E name \in CalledNames :
       \E arguments \in ArgumentsOf(name) :
         LET impl == call_tool(name, arguments)
         IN /\ last' = [op |-> "call_tool", raised |-> impl = "ValueError",
                        gen |-> FALSE, n |-> 0, name |-> name,
                        arguments |-> arguments, impl |-> impl]
            /\ CASE impl = "ValueError" ->
                      /\ run' = Respond(ValueError(name))
                      /\ UNCHANGED <<state, pc, pre>>
                 [] impl = "execute_strategy" -> ExecuteStrategyBegin
                 [] impl = "analyze_intent" ->
                      /\ \E resp \in ClientResponses(run.anthropic, run.openai,
                                                     Text("instructions", 1)) :
                           run' = Respond(analyze_intent_impl(resp))
                      /\ UNCHANGED <<state, pc, pre>>
                 [] impl \in {"search_market", "search_competitor"} ->
                      /\ \E found \in {"results", "empty", "error"} :
                           run' = Respond(search_impl(impl, found))
                      /\ UNCHANGED <<state, pc, pre>>
                 [] impl = "generate_strategy" ->
                      /\ \E resp \in ClientResponses(run.anthropic, run.openai,
                                                     Text("draft", 1)) :
                           run' = Respond(generate_strategy_impl(resp))
                      /\ UNCHANGED <<state, pc, pre>>
                 [] impl = "audit_strategy" ->
                      /\ \E resp \in IF API_KEYS_CONFIGURED
                                     THEN {LLMText(t) : t \in AuditTexts}
                                          \cup {LLMError}
                                     ELSE {LLMError} :
                           run' = Respond(audit_strategy_impl(resp))
                      /\ UNCHANGED <<state, pc, pre>>
    /\ UNCHANGED <<collection, next_uuid, created, scout>>

NextCallTool ==
    \/ CallTool
    \/ ExecuteStrategyReturn
    \/ NodeIntentAnalysis
    \/ ScoutNodeStart
    \/ ScoutNodeCollect
    \/ NodeIntelligenceFusion
    \/ NodeStrategyGeneration
    \/ NodeAdversarialAudit
    \/ NodeTechnicalReview

SpecCallTool == InitTools /\ [][NextCallTool]_vars

----------------------------------------------------------------------------
(* The artifact store used on its own: utils/artifact.py ArtifactManager *)

Pages == {"p", "q"}

RECURSIVE Contents(_)
Contents(n) ==
    IF n = 0 THEN {<<>>}
    ELSE Contents(n - 1)
         \cup {Append(c, x) : c \in {y \in Contents(n - 1) : Len(y) = n - 1},
                              x \in Pages}

InitStore ==
    /\ state = GlobalState("request", "scouting", 0, <<>>, <<>>)
    /\ collection = {}
    /\ created = {}
    /\ next_uuid = 1
    /\ pc = "idle"
    /\ scout = NoScout
    /\ pre = state
    /\ last = [op |-> "ArtifactManager", raised |-> FALSE, gen |-> FALSE, n |-> 0]
    /\ run = NoRun("store", 0)

CreateArtifact ==
    /\ next_uuid <= MaxArtifacts
    /\ \E content \in Contents(MaxPages), store_ok \in BOOLEAN :
         LET made == create_artifact(collection, next_uuid, content, store_ok)
         IN /\ collection' = made.collection
            /\ created' = IF made.raised THEN created
                          ELSE created \cup {[artifact_id |-> made.artifact_id,
                                               content |-> content]}
            /\ last' = [op |-> "create_artifact", raised |-> made.raised,
                        gen |-> FALSE, n |-> 0,
                        artifact_id |-> made.artifact_id]
    /\ next_uuid' = next_uuid + 1
    /\ UNCHANGED <<state, pc, scout, pre, run>>

GetArtifact ==
    /\ \E artifact_id \in {Uuid(n) : n \in 0..(next_uuid - 1)} \cup {EmptyString} :
         last' = [op |-> "get_artifact", raised |-> FALSE, gen |-> FALSE, n |-> 0,
                  artifact_id |-> artifact_id,
                  result |-> get_artifact(collection, artifact_id)]
    /\ UNCHANGED <<state, collection, next_uuid, created, pc, scout, pre, run>>

NextStore ==
    \/ CreateArtifact
    \/ GetArtifact

SpecStore == InitStore /\ [][NextStore]_vars

----------------------------------------------------------------------------
(* utils/artifact.py generate_summary on its own, character by character:    *)
(* a str is a sequence of characters.                                        *)

Chars == {"a", "b"}

Ellipsis == <<".", ".", ".">>

RECURSIVE Strings(_)
Strings(n) ==
    IF n = 0 THEN {<<>>}
    ELSE Strings(n - 1)
         \cup {Append(c, x) : c \in {y \in Strings(n - 1) : Len(y) = n - 1},
                              x \in Chars}

\* The slice content[:stop] of Python: a negative stop counts from the end
SliceTo(content, stop) ==
    LET n == IF stop >= 0
             THEN (IF stop < Len(content) THEN stop ELSE Len(content))
             ELSE (IF Len(content) + stop > 0 THEN Len(content) + stop ELSE 0)
    IN SubSeq(content, 1, n)

\* ArtifactManager.generate_summary(content, max_length)
generate_summary_chars(content, max_length) ==
    IF Len(content) <= max_length THEN content
    ELSE SliceTo(content, max_length - 3) \o Ellipsis

InitSummary ==
    /\ state = GlobalState("request", "scouting", 0, <<>>, <<>>)
    /\ collection = {}
    /\ created = {}
    /\ next_uuid = 1
    /\ pc = "idle"
    /\ scout = NoScout
    /\ \E content \in Strings(MaxChars), max_length \in 0..MaxLength :
         pre = [content |-> content, max_length |-> max_length]
    /\ last = [op |-> "ArtifactManager", raised |-> FALSE, gen |-> FALSE, n |-> 0]
    /\ run = NoRun("summary", 0)

GenerateSummary ==
    /\ pc = "idle"
    /\ last' = [op |-> "generate_summary", raised |-> FALSE, gen |-> FALSE, n |-> 0,
                summary |-> generate_summary_chars(pre.content, pre.max_length)]
    /\ pc' = "returned"
    /\ UNCHANGED <<state, collection, next_uuid, created, scout, pre, run>>

NextSummary == GenerateSummary

SpecSummary == InitSummary /\ [][NextSummary]_vars

----------------------------------------------------------------------------
(* utils/audit_visualizer.py generate_audit_visualization on its own. The    *)
(* input text is what json.loads and the StructuredAuditReport constructor   *)
(* make of it: no JSON, JSON without the fields of a report, or a report.    *)

Severities == {"low", "medium", "high"}

Dimensions == {"market", "technical"}

\* The findings a report may hold: AuditFinding.severity is a plain str
Findings == [dimension : Dimensions, severity : Severities \cup {"critical"}]

RECURSIVE FindingLists(_)
FindingLists(n) ==
    IF n = 0 THEN {<<>>}
    ELSE FindingLists(n - 1)
         \cup {Append(l, f) : l \in {x \in FindingLists(n - 1) : Len(x) = n - 1},
                              f \in Findings}

AuditReportInputs ==
    {[parsed |-> "decode_error", overall_status |-> "", score |-> 0,
      findings |-> <<>>],
     [parsed |-> "validation_error", overall_status |-> "", score |-> 0,
      findings |-> <<>>]}
    \cup {[parsed |-> "report", overall_status |-> st, score |-> 80,
           findings |-> fs] :
             st \in {"pass", "reject"}, fs \in FindingLists(MaxFindings)}

\* The dictionary returned by the except clause
FallbackVisualization ==
    [raised |-> FALSE,
     summary |-> [overall_status |-> "unknown", score |-> 0, total_findings |-> 0],
     severity_distribution |-> [s \in Severities |-> 0],
     dimension_distribution |-> <<>>,
     findings |-> <<>>]

\* The loop "severity_counts[finding.severity] += 1": the counts, or KeyError
RECURSIVE severity_counts(_, _, _)
severity_counts(findings, i, counts) ==
    IF i > Len(findings) THEN [error |-> FALSE, counts |-> counts]
    ELSE IF findings[i].severity \notin DOMAIN counts
    THEN [error |-> TRUE, counts |-> counts]
    ELSE severity_counts(findings, i + 1,
                         [counts EXCEPT ![findings[i].severity] = @ + 1])

\* The loop over the findings that fills dimension_counts
RECURSIVE dimension_counts(_, _, _)
dimension_counts(findings, i, counts) ==
    IF i > Len(findings) THEN counts
    ELSE LET d == findings[i].dimension
         IN dimension_counts(findings, i + 1,
                IF d \in DOMAIN counts THEN [counts EXCEPT ![d] = @ + 1]
                ELSE counts @@ (d :> 1))

\* A generate_audit_visualization that leaves findings of unknown severity
\* out of the severity chart
generate_audit_visualization_SkipsUnknown(audit_report_json) ==
    IF audit_report_json.parsed # "report" THEN FallbackVisualization
    ELSE LET audit_report == audit_report_json
             known == SelectSeq(audit_report.findings,
                                LAMBDA f : f.severity \in Severities)
         IN [raised |-> FALSE,
             summary |-> [overall_status |-> audit_report.overall_status,
                          score |-> audit_report.score,
                          total_findings |-> Len(audit_report.findings)],
             severity_distribution |->
                 severity_counts(known, 1, [s \in Severities |-> 0]).counts,
             dimension_distribution |->
                 dimension_counts(audit_report.findings, 1, <<>>),
             findings |-> audit_report.findings]

\* generate_audit_visualization
generate_audit_visualization(audit_report_json) ==
    IF audit_report_json.parsed # "report" THEN FallbackVisualization
    ELSE LET audit_report == audit_report_json
             severity == severity_counts(audit_report.findings, 1,
                                         [s \in Severities |-> 0])
         IN IF severity.error THEN FallbackVisualization
            ELSE [raised |-> FALSE,
                  summary |-> [overall_status |-> audit_report.overall_status,
                               score |-> audit_report.score,
                               total_findings |-> Len(audit_report.findings)],
                  severity_distribution |-> severity.counts,
                  dimension_distribution |->
                      dimension_counts(audit_report.findings, 1, <<>>),
                  findings |-> audit_report.findings]

InitVisualizer ==
    /\ state = GlobalState("request", "scouting", 0, <<>>, <<>>)
    /\ collection = {}
    /\ created = {}
    /\ next_uuid = 1
    /\ pc = "idle"
    /\ scout = NoScout
    /\ pre \in AuditReportInputs
    /\ last = [op |-> "import", raised |-> FALSE, gen |-> FALSE, n |-> 0]
    /\ run = NoRun("visualizer", 0)

GenerateAuditVisualization ==
    /\ pc = "idle"
    /\ LET data == generate_audit_visualization(pre)
       IN last' = [op |-> "generate_audit_visualization", raised |-> data.raised,
                   gen |-> FALSE, n |-> 0, data |-> data]
    /\ pc' = "returned"
    /\ UNCHANGED <<state, collection, next_uuid, created, scout, pre, run>>

NextVisualizer == GenerateAuditVisualization

SpecVisualizer == InitVisualizer /\ [][NextVisualizer]_vars

----------------------------------------------------------------------------
(* utils/llm_router.py TokenBudgetTracker on its own: run.budget_claude and  *)
(* run.used_tokens are the fields of the tracker.                            *)

\* A TokenBudgetTracker.add_tokens that charges the tokens before it tests
\* the budget
add_tokens_ChargesFirst(used_tokens, budget_claude, tokens) ==
    [used_tokens |-> used_tokens + tokens,
     raised |-> used_tokens + tokens > budget_claude]

\* TokenBudgetTracker.add_tokens
add_tokens(used_tokens, budget_claude, tokens) ==
    IF used_tokens + tokens > budget_claude
    THEN [used_tokens |-> used_tokens, raised |-> TRUE]
    ELSE [used_tokens |-> used_tokens + tokens, raised |-> FALSE]

\* TokenBudgetTracker.get_remaining_tokens
get_remaining_tokens(used_tokens, budget_claude) == budget_claude - used_tokens

\* TokenBudgetTracker.__init__ with a budget that is no negative number
InitTokens ==
    /\ state = GlobalState("request", "scouting", 0, <<>>, <<>>)
    /\ collection = {}
    /\ created = {}
    /\ next_uuid = 1
    /\ pc = "idle"
    /\ scout = NoScout
    /\ pre = state
    /\ last = [op |-> "TokenBudgetTracker", raised |-> FALSE, gen |-> FALSE,
               n |-> 0]
    /\ \E budget_claude \in 0..MaxBudget :
         run = NoRun("tokens", 0)
               @@ [budget_claude |-> budget_claude, used_tokens |-> 0]

AddTokens ==
    /\ \E tokens \in 0..MaxTokens :
         LET r == add_tokens(run.used_tokens, run.budget_claude, tokens)
         IN /\ run' = [run EXCEPT !.used_tokens = r.used_tokens]
            /\ last' = [op |-> "add_tokens", raised |-> r.raised, gen |-> FALSE,
                        n |-> 0, tokens |-> tokens, before |-> run.used_tokens]
    /\ UNCHANGED <<state, collection, next_uuid, created, pc, scout, pre>>

GetRemainingTokens ==
    /\ last' = [op |-> "get_remaining_tokens", raised |-> FALSE, gen |-> FALSE,
                n |-> 0,
                result |-> get_remaining_tokens(run.used_tokens, run.budget_claude)]
    /\ UNCHANGED <<state, collection, next_uuid, created, pc, scout, pre, run>>

NextTokens ==
    \/ AddTokens
    \/ GetRemainingTokens

SpecTokens == InitTokens /\ [][NextTokens]_vars

----------------------------------------------------------------------------
(* Properties of a run of the graph *)

NumPending(s) ==
    Cardinality({i \in 1..Len(s.scout_instructions) :
                    s.scout_instructions[i].status = "pending"})

ScoutReturned == last.op = "scout_node" /\ ~last.raised

\* C1: a run of scout_node that started with N pending instructions appends
\* exactly N records to raw_intelligence and leaves no instruction pending,
\* whatever the outcome of each instruction's search, store and manager set-up.
C1_ScoutOneRecordPerPending ==
    ScoutReturned =>
        /\ Len(state.raw_intelligence) = Len(pre.raw_intelligence) + NumPending(pre)
        /\ NumPending(state) = 0

\* C1 witness: a batch of two pending instructions, every search failing.
C1_Witness ==
    /\ ScoutReturned
    /\ NumPending(pre) = 2
    /\ Len(state.raw_intelligence) = Len(pre.raw_intelligence) + 2
    /\ \A i \in 1..Len(state.raw_intelligence) :
         i > Len(pre.raw_intelligence) =>
            state.raw_intelligence[i].content_summary
                = generate_summary(combined_content("error"))

\* C3 (as claimed): a run started with iteration_count = 0 in which every audit
\* rejects ends with status awaiting_user and iteration_count 3.
C3_AllRejectEndsAwaitingUser ==
    (pc = "END" /\ run.start_ic = 0 /\ run.audits > 0 /\ run.all_reject) =>
        (state.status = "awaiting_user" /\ state.iteration_count = 3)

\* C4 (as claimed): when a run reaches END, status is completed or awaiting_user.
C4_EndStatusTerminal ==
    pc = "END" => state.status \in {"completed", "awaiting_user"}

TechReviewRan == last.op = "technical_review"

Verdict(text) ==
    CASE text.json \in {"pass", "conditional", "reject"} -> text.json
      [] Contains(text, "Status: Reject") -> "reject"
      [] Contains(text, "Overall Status: Reject") -> "reject"
      [] Contains(text, "Status: Conditional") -> "conditional"
      [] Contains(text, "Status: Pass") \/ Contains(text, "Status: PASS") -> "pass"
      [] OTHER -> "none"

\* C6 (as claimed): an audit output that parses into none of the verdicts never
\* leaves status completed, and the audit router does not end the run on it.
C6_MalformedNeverPasses ==
    (last.op \in {"adversarial_audit", "advanced_adversarial_audit"}
     /\ ~last.raised /\ Verdict(state.audit_report) = "none") =>
        /\ state.status # "completed"
        /\ (run.mode = "graph" => pc # "END")

\* C8: technical_review entered at or above the cap calls no generation, writes
\* the fixed message, sets awaiting_user and keeps iteration_count; entered
\* below the cap with a successful generation it adds 1 and sets refining.
C8_TechnicalReviewContract ==
    TechReviewRan =>
        /\ pre.iteration_count >= MAX_ITERATIONS =>
              /\ ~last.gen /\ ~last.raised
              /\ state.technical_correction = MaxIterationsMessage
              /\ state.status = "awaiting_user"
              /\ state.iteration_count = pre.iteration_count
        /\ (pre.iteration_count < MAX_ITERATIONS /\ ~last.raised) =>
              /\ last.gen
              /\ state.iteration_count = pre.iteration_count + 1
              /\ state.status = "refining"

\* C8 witness: the max-iterations branch taken on a state above the cap.
C8_Witness ==
    /\ TechReviewRan
    /\ pre.iteration_count = 4
    /\ state.technical_correction = MaxIterationsMessage
    /\ state.status = "awaiting_user"

Stages ==
    {"intent_analysis", "ingestion", "scout_node", "intelligence_fusion",
     "strategy_generation", "adversarial_audit", "technical_review"}

\* C9: a stage that fails leaves status awaiting_user, the error reaches the
\* caller of the graph, and no stage runs after it.
C9_FailureStopsRun ==
    /\ (last.op \in Stages /\ last.raised) =>
          (state.status = "awaiting_user" /\ pc = "raised")
    /\ pc = "raised" => (last.raised /\ ~ENABLED Next)

\* C9 witness: fusion fails after the dispatcher has appended its records.
C9_Witness ==
    /\ last.op = "intelligence_fusion" /\ last.raised
    /\ pre.status = "scouting"
    /\ Len(state.raw_intelligence) > 0
    /\ pc = "raised"

----------------------------------------------------------------------------
(* Properties of a request handled through the StateManager *)

\* C2 (as claimed): iteration_count never exceeds the cap, under any sequence
\* of stages and StateManager operations.
C2_IterationCountWithinCap ==
    state.iteration_count <= MAX_ITERATIONS

AuditRan ==
    /\ last.op \in {"adversarial_audit", "advanced_adversarial_audit",
                    "audit_node_adversarial_audit"}
    /\ ~last.raised

\* C7 (as claimed): after an audit of any implementation, a pass verdict leaves
\* status completed and the audit router at END; a conditional or reject
\* verdict leaves status awaiting_user and the router at technical_review.
C7_VerdictDecidesStatus ==
    AuditRan =>
        /\ Verdict(state.audit_report) = "pass" =>
              (state.status = "completed" /\ audit_router(state) = "END")
        /\ Verdict(state.audit_report) \in {"conditional", "reject"} =>
              (state.status = "awaiting_user"
               /\ audit_router(state) = "technical_review")

----------------------------------------------------------------------------
(* Properties of the artifact store *)

\* C10 (as claimed): get_artifact of an id that create_artifact returned finds
\* an artifact with that id and the content that was stored.
C10_CreateGetRoundTrip ==
    \A a \in created :
        (last.op = "get_artifact" /\ last.artifact_id = a.artifact_id) =>
            /\ last.result.found
            /\ last.result.id = a.artifact_id
            /\ last.result.content = a.content

----------------------------------------------------------------------------
(* Properties of the records in raw_intelligence *)

\* C11 (as claimed): in every reachable state of a request, each record of
\* raw_intelligence has an artifact_ref_id that is the empty string or an id
\* for which get_artifact returns an existing artifact.
C11_ReferencesResolve ==
    \A i \in 1..Len(state.raw_intelligence) :
        LET ref == state.raw_intelligence[i].artifact_ref_id
        IN ref = EmptyString \/ get_artifact(collection, ref).found

\* C12 (as claimed): a fusion pass puts every record of raw_intelligence into
\* its input, a record without a retrievable artifact as a content-unavailable
\* marker: the input has as many entries as there are records.
C12_EveryRecordInFusionInput ==
    last.op = "intelligence_fusion" =>
        last.n = Len(pre.raw_intelligence)

\* What became of one task of the dispatcher, read off its result: the search
\* raised when the content is the search-failure text, the store raised when
\* the task returned without an artifact id.
SearchFailed(r) == ~r.exception /\ r.content = combined_content("error")
StoreFailed(r) == ~r.exception /\ r.artifact_id = EmptyString

\* The state scout_node returns once asyncio.gather has every result
DispatcherResult == ProcessResults(state, scout.pending, scout.results, 1)

AllTasksDone == pc = "scout_tasks" /\ Len(scout.results) = Len(scout.pending)

\* C13 (as claimed): for an instruction whose search fails, and for one whose
\* store fails, the dispatcher marks the instruction done and emits a record
\* with an empty artifact_ref_id; a record with a non-empty artifact_ref_id is
\* emitted only when both search and store succeeded.
C13_FailureGivesEmptyReference ==
    AllTasksDone =>
        \A k \in 1..Len(scout.results) :
            LET r == scout.results[k]
                rec == DispatcherResult.raw_intelligence
                           [Len(state.raw_intelligence) + k]
                inst == DispatcherResult.scout_instructions[scout.pending[k]]
            IN /\ (SearchFailed(r) \/ StoreFailed(r)) =>
                     (inst.status = "done" /\ rec.artifact_ref_id = EmptyString)
               /\ rec.artifact_ref_id # EmptyString =>
                     (~SearchFailed(r) /\ ~StoreFailed(r))

\* C14 (as claimed): after intent_analysis succeeds, scout_instructions holds
\* between 3 and 5 instructions, each pending and with a role among market,
\* tech and competitor, so the dispatcher has at least 3 pending instructions.
C14_IntentYieldsInstructions ==
    (last.op = "intent_analysis" /\ ~last.raised) =>
        /\ Len(state.scout_instructions) \in 3..5
        /\ \A i \in 1..Len(state.scout_instructions) :
              /\ state.scout_instructions[i].status = "pending"
              /\ state.scout_instructions[i].role
                    \in {"market", "tech", "competitor"}
        /\ NumPending(state) >= 3

----------------------------------------------------------------------------
(* Properties of the dispatcher *)

\* C15: scout_node on a state whose instructions are all done creates no task,
\* so no search or store call is made, and returns the state unchanged; a
\* second run right after a first one therefore changes nothing.
C15_ScoutNodeIdempotent ==
    /\ (pc = "scout_tasks" /\ NumPending(pre) = 0) =>
          (~ENABLED ScoutTask /\ state = pre)
    /\ (ScoutReturned /\ NumPending(pre) = 0) => state = pre

\* C15 witness: a second run of scout_node after the run that processed the
\* instructions of the request.
C15_Witness ==
    /\ ScoutReturned
    /\ Len(pre.scout_instructions) > 0
    /\ NumPending(pre) = 0
    /\ Len(pre.raw_intelligence) = Len(pre.scout_instructions)
    /\ \A i \in 1..Len(pre.raw_intelligence) :
          pre.raw_intelligence[i].source_scout_id = pre.scout_instructions[i].id
    /\ state = pre

\* C16: fusion starts only after the dispatcher (or, on a loop back, the
\* correction step) has returned; when the dispatcher returns, every
\* instruction that was pending at its start is done; and once the tasks are
\* handed to the event loop, the dispatcher eventually returns with no
\* instruction pending.
C16_JoinBeforeFusion ==
    /\ []((run.mode = "graph" /\ pc = "intelligence_fusion") =>
             /\ last.op \in {"scout_node", "technical_review"}
             /\ ~last.raised
             /\ NumPending(state) = 0)
    /\ [](ScoutReturned =>
             \A i \in 1..Len(pre.scout_instructions) :
                 state.scout_instructions[i].status = "done")
    /\ (pc = "scout_tasks") ~> (ScoutReturned /\ NumPending(state) = 0)

\* C16 witness: fusion is about to start after a dispatcher run that had two
\* pending instructions, the first of which failed before its search.
C16_Witness ==
    /\ pc = "intelligence_fusion"
    /\ ScoutReturned
    /\ NumPending(pre) = 2
    /\ NumPending(state) = 0
    /\ state.raw_intelligence[Len(pre.raw_intelligence) + 1].content_summary
          = <<"Failed to execute scout task for topic">>

\* At most one task is between the start of its search and its return
TasksRunOneAfterAnother ==
    Cardinality({k \in 1..Len(scout.pending) : InProgress(k)}) <= 1

\* C17 (as claimed): for a batch of two or more pending instructions the tasks
\* overlap: the search of one instruction starts while a task started before
\* it has not finished.
C17_TasksOverlap ==
    (/\ pc = "gathered"
     /\ Len(scout.pending) >= 2
     /\ \A k \in 1..Len(scout.pending) : ~scout.results[k].exception) =>
        scout.overlapped


----------------------------------------------------------------------------
(* Frame of iteration_count *)

\* C20 (as claimed): iteration_count changes only in a step of the correction
\* stage that applies a technical correction, and then by one; no other stage
\* and no StateManager operation changes it.
C20_OnlyCorrectionChangesCount ==
    [][state'.iteration_count # state.iteration_count =>
          /\ last'.op = "technical_review"
          /\ ~last'.raised
          /\ state'.iteration_count = state.iteration_count + 1]_vars

----------------------------------------------------------------------------
(* Properties of the tools *)

\* C18 (as claimed): when no generation credentials are configured, every call
\* of execute_strategy, analyze_intent, generate_strategy and audit_strategy
\* returns the configuration error with the code API_KEY_NOT_CONFIGURED and
\* attempts no generation call.
C18_MissingKeysReported ==
    ~API_KEYS_CONFIGURED =>
        \A i \in 1..Len(run.responses) :
            /\ run.responses[i].kind = "configuration_error"
            /\ run.responses[i].code = "API_KEY_NOT_CONFIGURED"
            /\ ~run.responses[i].gen

----------------------------------------------------------------------------
(* Properties of the fields of the request state over its lifetime *)

\* C21 (as claimed): iteration_count never becomes smaller than it was, under
\* any sequence of stages and StateManager operations on the request.
C21_IterationCountMonotonic ==
    [][state'.iteration_count >= state.iteration_count]_vars

\* The transitions of status named by the state machine
StatusMachine ==
    {<<"scouting", "drafting">>, <<"drafting", "auditing">>,
     <<"auditing", "completed">>, <<"auditing", "awaiting_user">>,
     <<"awaiting_user", "refining">>, <<"refining", "drafting">>}

\* C22 (as claimed): status changes only along the state machine, or to
\* awaiting_user when a stage fails; no operation moves it out of completed.
C22_StatusFollowsMachine ==
    [][state'.status # state.status =>
          \/ <<state.status, state'.status>> \in StatusMachine
          \/ (last'.raised /\ state'.status = "awaiting_user")]_vars

\* C23 (as claimed): an instruction is never removed from scout_instructions
\* and its status never goes from done back to pending.
C23_InstructionsOnlyAdvance ==
    [][/\ Len(state'.scout_instructions) >= Len(state.scout_instructions)
       /\ \A i \in 1..Len(state.scout_instructions) :
             i <= Len(state'.scout_instructions) =>
                /\ state'.scout_instructions[i].id = state.scout_instructions[i].id
                /\ state.scout_instructions[i].status = "done" =>
                      state'.scout_instructions[i].status = "done"]_vars

\* The records of raw_intelligence whose source is the instruction inst
RecordsOf(s, inst) ==
    {i \in 1..Len(s.raw_intelligence) :
        ToString(s.raw_intelligence[i].source_scout_id) = ToString(inst.id)}

\* C24 (as claimed): after a run of the graph every record of raw_intelligence
\* has the id of an instruction of scout_instructions as its source_scout_id,
\* and no instruction has more than one record.
C24_RecordsBelongToInstructions ==
    pc = "END" =>
        /\ \A i \in 1..Len(state.raw_intelligence) :
              \E j \in 1..Len(state.scout_instructions) :
                  i \in RecordsOf(state, state.scout_instructions[j])
        /\ \A j \in 1..Len(state.scout_instructions) :
              Cardinality(RecordsOf(state, state.scout_instructions[j])) <= 1

\* C25 (as claimed): request_id never changes after the request state is
\* created, under any stage and any StateManager operation.
C25_RequestIdImmutable ==
    [][state'.request_id = state.request_id]_vars

\* C30 (as claimed): advanced_adversarial_audit leaves status completed only
\* for a parsed overall_status of pass, and awaiting_user for every other
\* parsed value.
C30_CompletedOnlyOnPass ==
    (last.op = "advanced_adversarial_audit" /\ ~last.raised
     /\ state.audit_report.json # "decode_error") =>
        /\ state.status = "completed" <=> state.audit_report.json = "pass"
        /\ state.audit_report.json # "pass" => state.status = "awaiting_user"

----------------------------------------------------------------------------
(* Properties of checkpoints *)

\* C26: save_checkpoint never raises and leaves the request state as it was,
\* with no backend, with a backend that takes the write, and with a backend
\* whose write fails; a failed write shows only in the log.
C26_SaveCheckpointHarmless ==
    last.op = "save_checkpoint" =>
        /\ ~last.raised
        /\ state = pre
        /\ (run.redis_client = "None" => run.logged = "debug")
        /\ run.logged \in {"debug", "info", "error"}

\* A write to the backend failed after the state had been changed
C26_Witness ==
    /\ last.op = "save_checkpoint"
    /\ run.redis_client = "client"
    /\ run.logged = "error"
    /\ state.iteration_count > 0

----------------------------------------------------------------------------
(* Frame of the fusion stage *)

\* C27: a fusion pass that succeeds replaces consolidated_briefing by the new
\* output and sets status to drafting, and changes no other field of the
\* state; technical_correction changes only in a step of technical_review, so
\* a fusion pass leaves the correction it read for the passes after it.
C27_FusionFrame ==
    [][/\ (run'.fusions # run.fusions /\ ~last'.raised) =>
             state' = [state EXCEPT
                         !.consolidated_briefing = Text("briefing", run'.fusions),
                         !.status = "drafting"]
       /\ state'.technical_correction # state.technical_correction =>
             (last'.op = "technical_review" /\ run'.fusions = run.fusions)]_vars

\* A later fusion pass of a run, after a correction was written, has
\* succeeded and the correction is still in the state
C27_Witness ==
    /\ last.op = "intelligence_fusion"
    /\ ~last.raised
    /\ run.fusions >= 2
    /\ pre.technical_correction = Text("correction", pre.iteration_count)
    /\ state.technical_correction = pre.technical_correction
    /\ state.consolidated_briefing # pre.consolidated_briefing
    /\ Len(state.raw_intelligence) > 0

----------------------------------------------------------------------------
(* Properties of generate_summary *)

IsPrefix(p, t) == Len(p) <= Len(t) /\ SubSeq(t, 1, Len(p)) = p

\* C28: generate_summary returns the content unchanged when it is not longer
\* than max_length; otherwise the summary is a prefix of the content followed
\* by the ellipsis; and for every content and every max_length >= 0 the
\* summary is not longer than max_length.
C28_SummaryWithinMaxLength ==
    last.op = "generate_summary" =>
        LET content == pre.content
            max_length == pre.max_length
            summary == last.summary
        IN /\ Len(content) <= max_length => summary = content
           /\ Len(content) > max_length =>
                 /\ Len(summary) >= 3
                 /\ SubSeq(summary, Len(summary) - 2, Len(summary)) = Ellipsis
                 /\ IsPrefix(SubSeq(summary, 1, Len(summary) - 3), content)
           /\ Len(summary) <= max_length

----------------------------------------------------------------------------
(* Properties of execute_strategy *)

\* C29: execute_strategy returns the document (strategy draft, audit report
\* and request id) of a run that reached END, or the error text: when a stage
\* of the run failed, the text returned is the error explanation and holds
\* neither the strategy draft nor the audit report the run had produced.
C29_DocumentOrError ==
    [][(pc \in {"END", "raised"} /\ pc' = "idle") =>
          LET response == run'.responses[Len(run'.responses)]
          IN /\ Len(run'.responses) = Len(run.responses) + 1
             /\ response.tool = "execute_strategy"
             /\ last.raised <=> pc = "raised"
             /\ last.raised =>
                   /\ response.kind = "error"
                   /\ \A i \in 1..Len(response.text) :
                         /\ ToString(response.text[i]) # ToString(state.strategy_draft)
                         /\ ToString(response.text[i]) # ToString(state.audit_report)
             /\ ~last.raised =>
                   /\ response.kind = "result"
                   /\ response.text = <<state.strategy_draft, state.audit_report,
                                        state.request_id>>]_vars

\* The audit stage failed after a draft had been written, and the tool has
\* answered with the error text
C29_Witness ==
    /\ pc = "idle"
    /\ last.op = "adversarial_audit"
    /\ last.raised
    /\ state.strategy_draft # EmptyText
    /\ Len(run.responses) > 0
    /\ run.responses[Len(run.responses)] = ErrorText("execute_strategy", TRUE)

----------------------------------------------------------------------------
(* Properties of the routers *)

\* C31: after an audit stage that returned, the route audit_router takes and
\* the status the stage wrote agree for every audit report text: the run is at
\* END exactly when status is completed, and control is at technical_review
\* exactly when status is awaiting_user.
C31_RouteAgreesWithStatus ==
    (run.mode = "graph" /\ last.op = "adversarial_audit" /\ ~last.raised) =>
        /\ state.status \in {"completed", "awaiting_user"}
        /\ pc \in {"END", "technical_review"}
        /\ pc = audit_router(state)
        /\ pc = "END" <=> state.status = "completed"
        /\ pc = "technical_review" <=> state.status = "awaiting_user"

\* The audit answered with a conditional verdict and the run went on to the
\* correction stage
C31_Witness ==
    /\ run.mode = "graph"
    /\ last.op = "adversarial_audit"
    /\ ~last.raised
    /\ state.audit_report = Markdown("Status: Conditional")
    /\ state.status = "awaiting_user"
    /\ pc = "technical_review"

\* C32: in a run of the graph started with iteration_count = 0 the correction
\* stage is never entered with iteration_count >= 3, so it never takes its
\* max-iterations branch (fixed message, no generation call): the router ends
\* the run right after the execution that brings iteration_count to 3.
C32_CapBranchNeverTaken ==
    (run.mode = "graph" /\ run.start_ic = 0) =>
        /\ pc = "technical_review" => state.iteration_count < 3
        /\ state.technical_correction # MaxIterationsMessage
        /\ (last.op = "technical_review" /\ ~last.raised) =>
              /\ last.gen
              /\ pre.iteration_count < 3
              /\ state.iteration_count = pre.iteration_count + 1
              /\ state.iteration_count = 3 <=> pc = "END"

\* The third correction of a run started at 0 has brought the count to 3 and
\* the run has ended
C32_Witness ==
    /\ run.mode = "graph"
    /\ run.start_ic = 0
    /\ last.op = "technical_review"
    /\ ~last.raised
    /\ last.gen
    /\ state.iteration_count = 3
    /\ pc = "END"

----------------------------------------------------------------------------
(* Termination of a run of the graph *)

RunEnded == pc \in {"END", "raised"}

\* The number of executions of each stage the run may reach
StageCountsWithinBounds ==
    /\ run.intents <= 1
    /\ run.scouts <= 1
    /\ run.fusions <= 3
    /\ run.drafts <= 3
    /\ run.audits <= 3
    /\ run.reviews <= 3

\* C33: every run of the graph ends, whatever the audit verdicts and whichever
\* stages fail, given that each call of a collaborator returns or fails; and a
\* run executes intent analysis and the dispatcher at most once each, and
\* fusion, drafting, audit and correction at most 3 times each.
C33_RunTerminates == <>RunEnded /\ []StageCountsWithinBounds

\* A run that used the three rounds: three of each of fusion, drafting, audit
\* and correction, one intent analysis, one dispatch, and it has ended
C33_Witness ==
    /\ pc = "END"
    /\ run.intents = 1 /\ run.scouts = 1
    /\ run.fusions = 3 /\ run.drafts = 3 /\ run.audits = 3 /\ run.reviews = 3

----------------------------------------------------------------------------
(* What the correction loop repeats *)

FusionEntered == run.mode = "graph" /\ run.fusions >= 1

\* C34 (as claimed): the dispatcher and the ingestion stage have each run
\* exactly once when a fusion pass runs, and run only before the first pass.
C34_DispatcherAndIngestionOnce ==
    FusionEntered =>
        /\ run.scouts = 1
        /\ run.ingestions = 1
        /\ pc \notin {"intent_analysis", "ingestion", "scout"}

\* C34 (amended): when a fusion pass runs the dispatcher has run exactly once
\* and the ingestion stage once if the state holds attachments and not at all
\* otherwise; neither runs after the first fusion pass, and from the first
\* pass on no step changes raw_intelligence or scout_instructions, so every
\* fusion pass of the run reads the same ones.
C34_LoopReentersAtFusion ==
    /\ [](FusionEntered =>
            /\ run.scouts = 1
            /\ run.ingestions = (IF state.input_attachments # <<>> THEN 1 ELSE 0)
            /\ pc \notin {"intent_analysis", "ingestion", "scout"}
            /\ scout.pending = <<>>)
    /\ [][FusionEntered =>
            /\ state'.raw_intelligence = state.raw_intelligence
            /\ state'.scout_instructions = state.scout_instructions
            /\ run'.scouts = run.scouts
            /\ run'.ingestions = run.ingestions]_vars

\* The second fusion pass of a run with no attachment has succeeded, with the
\* records of the one dispatch in the state
C34_Witness ==
    /\ run.mode = "graph"
    /\ last.op = "intelligence_fusion"
    /\ ~last.raised
    /\ run.fusions = 2
    /\ run.scouts = 1
    /\ run.ingestions = 0
    /\ Len(state.raw_intelligence) = MaxInstr
    /\ state.raw_intelligence = pre.raw_intelligence

----------------------------------------------------------------------------
(* Order of the records of one dispatch *)

\* C35: the records one run of scout_node appends follow the order of their
\* instructions among the pending instructions of scout_instructions, and the
\* records that were in raw_intelligence before the run stay in front of
\* them, unchanged.
C35_RecordsInInstructionOrder ==
    (run.mode = "graph" /\ last.op = "scout_node" /\ ~last.raised) =>
        LET old == pre.raw_intelligence
            pending == pending_instructions(pre)
        IN /\ Len(state.raw_intelligence) = Len(old) + Len(pending)
           /\ SubSeq(state.raw_intelligence, 1, Len(old)) = old
           /\ \A k \in 1..Len(pending) :
                 state.raw_intelligence[Len(old) + k].source_scout_id
                     = pre.scout_instructions[pending[k]].id

\* A dispatch of two pending instructions has returned, in a state that held
\* the record of an attachment before
C35_Witness ==
    /\ run.mode = "graph"
    /\ last.op = "scout_node"
    /\ ~last.raised
    /\ Len(pending_instructions(pre)) = 2
    /\ Len(pre.raw_intelligence) = 1
    /\ Len(state.raw_intelligence) = 3

----------------------------------------------------------------------------
(* Round trip of a checkpoint *)

Restarted == last'.op = "StateManager" /\ run'.ops = run.ops + 1

\* C36: a StateManager constructed with a request id, with the backend
\* available, after a save_checkpoint of that request succeeded, starts from
\* a state equal field by field to the saved one; with no checkpoint for the
\* id or no backend it starts from a fresh state (status scouting,
\* iteration_count 0, empty collections) under the given request id.
C36_CheckpointRoundTrip ==
    [][Restarted =>
          LET request_id == last'.request_id
              available == run'.redis_client = "client" /\ last'.get_ok
          IN /\ (available /\ run.saved[request_id] # <<>>) =>
                   state' = run.saved[request_id][1]
             /\ (~available \/ run.redis[request_id] = <<>>) =>
                   state' = GlobalState(request_id, "scouting", 0, <<>>, <<>>)]_vars

----------------------------------------------------------------------------
(* Properties of call_tool *)

\* A call the tool list does not admit: no such tool, or a required argument
\* that is missing or empty
InvalidCall(name, arguments) ==
    \/ name \notin ToolNames
    \/ \E a \in RequiredArguments(name) : arguments[a] \in {"missing", "empty"}

\* C37: a call with an unknown tool name or with a missing or empty required
\* argument makes call_tool raise before any implementation is invoked: the
\* call creates no request state, starts no run and calls no collaborator.
C37_InvalidCallRejected ==
    [][(last'.op = "call_tool" /\ InvalidCall(last'.name, last'.arguments)) =>
          /\ last'.impl = "ValueError"
          /\ run'.responses = Append(run.responses, ValueError(last'.name))
          /\ ~run'.responses[Len(run'.responses)].gen
          /\ state' = state
          /\ pc' = "idle"]_vars

\* audit_strategy was called with an empty intelligence_briefing and the call
\* was rejected
C37_Witness ==
    /\ last.op = "call_tool"
    /\ last.name = "audit_strategy"
    /\ last.arguments["strategy_draft"] = "text"
    /\ last.arguments["intelligence_briefing"] = "empty"
    /\ run.responses # <<>>
    /\ run.responses[Len(run.responses)] = ValueError("audit_strategy")
    /\ pc = "idle"

----------------------------------------------------------------------------
(* Properties of generate_audit_visualization *)

RECURSIVE SumOf(_)
SumOf(counts) ==
    IF DOMAIN counts = {} THEN 0
    ELSE LET k == CHOOSE x \in DOMAIN counts : TRUE
         IN counts[k] + SumOf([y \in DOMAIN counts \ {k} |-> counts[y]])

\* C38: generate_audit_visualization never raises. For a report that parses
\* and whose severities are all low, medium or high, the values of
\* severity_distribution and those of dimension_distribution each sum to
\* total_findings, the number of findings of the report; for an input that
\* fails parsing or holds another severity it returns the fallback: status
\* unknown, score 0, no findings.
C38_VisualizationTotals ==
    last.op = "generate_audit_visualization" =>
        LET data == last.data
            regular == /\ pre.parsed = "report"
                       /\ \A i \in 1..Len(pre.findings) :
                             pre.findings[i].severity \in {"low", "medium", "high"}
        IN /\ ~last.raised
           /\ regular =>
                 /\ data.summary.total_findings = Len(pre.findings)
                 /\ data.findings = pre.findings
                 /\ data.summary.overall_status = pre.overall_status
                 /\ SumOf(data.severity_distribution) = data.summary.total_findings
                 /\ SumOf(data.dimension_distribution) = data.summary.total_findings
           /\ ~regular =>
                 /\ data.summary.overall_status = "unknown"
                 /\ data.summary.score = 0
                 /\ data.summary.total_findings = 0
                 /\ data.findings = <<>>
                 /\ SumOf(data.severity_distribution) = 0
                 /\ SumOf(data.dimension_distribution) = 0

\* A report with two findings of one dimension was charted
C38_Witness ==
    /\ last.op = "generate_audit_visualization"
    /\ pre.parsed = "report"
    /\ Len(pre.findings) = 2
    /\ last.data.summary.total_findings = 2
    /\ last.data.dimension_distribution = [d \in {"market"} |-> 2]
    /\ last.data.severity_distribution["high"] = 1
    /\ last.data.severity_distribution["low"] = 1

----------------------------------------------------------------------------
(* Properties of TokenBudgetTracker *)

\* C39: after any sequence of add_tokens calls with amounts that are no
\* negative numbers, 0 <= used_tokens <= budget_claude; a call that would
\* exceed the budget raises and leaves used_tokens as it was, any other call
\* adds its amount; and get_remaining_tokens returns budget_claude minus
\* used_tokens.
C39_BudgetEnforced ==
    /\ 0 <= run.used_tokens
    /\ run.used_tokens <= run.budget_claude
    /\ last.op = "add_tokens" =>
          /\ last.raised <=> last.before + last.tokens > run.budget_claude
          /\ last.raised => run.used_tokens = last.before
          /\ ~last.raised => run.used_tokens = last.before + last.tokens
    /\ last.op = "get_remaining_tokens" =>
          /\ last.result = run.budget_claude - run.used_tokens
          /\ last.result >= 0

\* A call that would have exceeded the budget was refused after part of the
\* budget had been used
C39_Witness ==
    /\ last.op = "add_tokens"
    /\ last.raised
    /\ last.before > 0
    /\ last.tokens > 0
    /\ run.used_tokens = last.before
    /\ run.used_tokens < run.budget_claude

====
